---- MODULE Spec2Model ----
(***************************************************************************)
(* Evidence pipeline of cfa_factory: reading-map builder, page segmenter,  *)
(* chunk store, vector index builder, retrieval and evidence packets.      *)
(* Strings are TLA+ strings handled character by character (SubSeq, Len,   *)
(* \o), so that parsing and formatting are modelled by what they do.       *)
(***************************************************************************)
EXTENDS Integers, Sequences, FiniteSets, TLC

VARIABLES
    docs,         \* doc_id -> sequence of page layouts (the page reader's output)
    reading_map,  \* reading_map.json: [exists, data: doc_id -> list of intervals]
    chunk_files,  \* chunks/<doc_id>.jsonl: doc_id of each existing file -> list of chunks
    collections,  \* index location -> [state, entries]
    runs,         \* runs/<doc>/<reading>/<run_id>: each existing directory ->
                  \* {} or {the packet of its evidence_packet.json}
    now,          \* wall clock, in ticks of 1/TicksPerSecond second
    map_job,      \* the running build_reading_map_for_doc call
    seg_job,      \* the running segmenter call(s)
    idx_job,      \* the running build_chroma_index call
    last_call     \* what the last build_evidence_packet call did

vars == <<docs, reading_map, chunk_files, collections, runs, now,
          map_job, seg_job, idx_job, last_call>>

----------------------------------------------------------------------------
(* Python values *)

\* None in an Optional[str] field; no string of the inputs equals it
None == "<None>"

\* a dict or a directory with no entry
EmptyMap == <<>>

\* Optional[int]: {} is None, {n} is n
NoInt == {}
SomeInt(n) == {n}
IntOf(o) == CHOOSE n \in o : TRUE

Max2(a, b) == IF a >= b THEN a ELSE b
Min2(a, b) == IF a <= b THEN a ELSE b

Range(s) == {s[i] : i \in DOMAIN s}

RECURSIVE SeqsUpTo(_, _)
\* all sequences over S of length <= n
SeqsUpTo(S, n) ==
    IF n = 0 THEN {<<>>}
    ELSE LET shorter == SeqsUpTo(S, n - 1)
         IN  shorter \cup {Append(s, x) : s \in {t \in shorter : Len(t) = n - 1}, x \in S}

----------------------------------------------------------------------------
(* str methods and the regular expressions of the source *)

CharAt(s, i) == SubSeq(s, i, i)
Digits == "0123456789"
UpperCase == "ABCDEFGHIJKLMNOPQRSTUVWXYZ"
LowerCase == "abcdefghijklmnopqrstuvwxyz"

IndexIn(alphabet, c) ==
    IF \E i \in 1..Len(alphabet) : CharAt(alphabet, i) = c
    THEN CHOOSE i \in 1..Len(alphabet) : CharAt(alphabet, i) = c
    ELSE 0

IsDigit(c) == IndexIn(Digits, c) > 0
IsSpace(c) == c \in {" ", "\n", "\t"}
\* \w of re: letters, digits, underscore
IsWordChar(c) == IsDigit(c) \/ IndexIn(UpperCase, c) > 0 \/ IndexIn(LowerCase, c) > 0 \/ c = "_"

LowerChar(c) ==
    LET i == IndexIn(UpperCase, c) IN IF i > 0 THEN CharAt(LowerCase, i) ELSE c

RECURSIVE Lower(_)
\* str.lower()
Lower(s) == IF s = "" THEN "" ELSE LowerChar(Head(s)) \o Lower(Tail(s))

RECURSIVE LStrip(_)
LStrip(s) == IF s # "" /\ IsSpace(Head(s)) THEN LStrip(Tail(s)) ELSE s

RECURSIVE RStrip(_)
RStrip(s) ==
    IF s # "" /\ IsSpace(CharAt(s, Len(s))) THEN RStrip(SubSeq(s, 1, Len(s) - 1)) ELSE s

\* str.strip()
Strip(s) == RStrip(LStrip(s))

\* str.isdigit()
IsDigitStr(s) == s # "" /\ \A i \in 1..Len(s) : IsDigit(CharAt(s, i))

RECURSIVE ParseInt(_)
\* int(s) of a string of digits
ParseInt(s) ==
    IF s = "" THEN 0
    ELSE 10 * ParseInt(SubSeq(s, 1, Len(s) - 1)) + (IndexIn(Digits, CharAt(s, Len(s))) - 1)

RECURSIVE IntToStr(_)
\* str(n), n >= 0
IntToStr(n) ==
    IF n < 10 THEN CharAt(Digits, n + 1)
    ELSE IntToStr(n \div 10) \o CharAt(Digits, (n % 10) + 1)

\* s[i:j] with 0-based, end-exclusive, clipped slice bounds (0 <= i)
Slice(s, i, j) ==
    LET hi == Min2(j, Len(s)) IN IF i >= hi THEN "" ELSE SubSeq(s, i + 1, hi)

\* whether t occurs in s at 1-based position i
OccursAt(s, i, t) == i >= 1 /\ i + Len(t) - 1 <= Len(s) /\ SubSeq(s, i, i + Len(t) - 1) = t

\* t in s
Contains(s, t) == \E i \in 1..(Len(s) + 1) : OccursAt(s, i, t)

\* s.rfind(t): 0-based offset of the last occurrence, -1 when there is none
RFind(s, t) ==
    LET hits == {i \in 1..Len(s) : OccursAt(s, i, t)}
    IN  IF hits = {} THEN -1 ELSE (CHOOSE i \in hits : \A j \in hits : j <= i) - 1

\* s.endswith(t)
EndsWith(s, t) == Len(t) <= Len(s) /\ SubSeq(s, Len(s) - Len(t) + 1, Len(s)) = t

\* \b of re at the gap before 1-based position i
WordBoundary(s, i) ==
    LET before == i > 1 /\ i - 1 <= Len(s) /\ IsWordChar(CharAt(s, i - 1))
        after == i >= 1 /\ i <= Len(s) /\ IsWordChar(CharAt(s, i))
    IN  before # after

RECURSIVE SkipWhile(_, _, _)
\* first position >= i whose character is not of the class (spaces or digits)
SkipWhile(s, i, digits) ==
    IF i <= Len(s) /\ (IF digits THEN IsDigit(CharAt(s, i)) ELSE IsSpace(CharAt(s, i)))
    THEN SkipWhile(s, i + 1, digits)
    ELSE i

NoMatch == "<NoMatch>"

RECURSIVE MatchFrom(_, _, _)
\* The patterns of _normalize_reading_id, matched at position i of the
\* lowercased s: toks is a list of literal words (lower case), "\\s*", "\\s+"
\* and a final "(\\d+)\\b". The result is group 1, or NoMatch.
MatchFrom(s, i, toks) ==
    IF toks = <<>> THEN NoMatch
    ELSE LET t == Head(toks) IN
         IF t = "\\s*" THEN MatchFrom(s, SkipWhile(s, i, FALSE), Tail(toks))
         ELSE IF t = "\\s+" THEN
            (IF SkipWhile(s, i, FALSE) > i
             THEN MatchFrom(s, SkipWhile(s, i, FALSE), Tail(toks)) ELSE NoMatch)
         ELSE IF t = "(\\d+)\\b" THEN
            (LET k == SkipWhile(s, i, TRUE)
             IN  IF k > i /\ WordBoundary(s, k) THEN SubSeq(s, i, k - 1) ELSE NoMatch)
         ELSE IF OccursAt(s, i, t)
              THEN MatchFrom(s, i + Len(t), Tail(toks)) ELSE NoMatch

\* re.search(r"\b" + toks, s, IGNORECASE): group 1 of the leftmost match
SearchWordNumber(s, toks) ==
    LET low == Lower(s)
        hits == {i \in 1..Len(s) : WordBoundary(low, i) /\ MatchFrom(low, i, toks) # NoMatch}
    IN  IF hits = {} THEN NoMatch
        ELSE MatchFrom(low, CHOOSE i \in hits : \A j \in hits : i <= j, toks)

----------------------------------------------------------------------------
(* chunker.py: chunk identity *)

\* hashlib.sha1(text).hexdigest(): a digest that differs when the text differs
_sha1(text) == "sha1(" \o text \o ")"

\* a faulty variant of the id below, kept for comparison: the id depends on
\* how many builds ran before
RunSaltedChunkId(doc_id, page, start_char, end_char, content_hash) ==
    _sha1(IntToStr(IF seg_job.pc = "idle" THEN 0 ELSE seg_job.builds) \o "|" \o content_hash)

\* chunker.py:26-28
_stable_chunk_id(doc_id, page, start_char, end_char, content_hash) ==
    _sha1(doc_id \o "|p" \o IntToStr(page) \o "|" \o IntToStr(start_char) \o "-"
          \o IntToStr(end_char) \o "|" \o content_hash)

RECURSIVE JoinInts(_)
\* ",".join(str(i) for i in block_ids)
JoinInts(ids) ==
    IF ids = <<>> THEN ""
    ELSE IF Len(ids) = 1 THEN IntToStr(ids[1])
    ELSE IntToStr(ids[1]) \o "," \o JoinInts(Tail(ids))

_stable_chunk_id_blocks(doc_id, page, block_ids, content_hash) ==
    _sha1(doc_id \o "|p" \o IntToStr(page) \o "|blocks:" \o JoinInts(block_ids)
          \o "|" \o content_hash)

\* a faulty variant of the lookup below, kept for comparison: an interval also
\* takes the page after its last
FindReadingIdLoose(rmap, doc_id, page) ==
    LET items == IF doc_id \in DOMAIN rmap THEN rmap[doc_id] ELSE <<>>
        hits == {i \in 1..Len(items) :
                    items[i].page_start <= page /\ page <= items[i].page_end + 1}
    IN  IF hits = {} THEN None
        ELSE items[CHOOSE i \in hits : \A j \in hits : i <= j].reading_id

\* the interval of rmap[doc_id] that holds the page, first match wins; rmap is
\* the dict load_reading_map returns
_find_reading_id(rmap, doc_id, page) ==
    LET items == IF doc_id \in DOMAIN rmap THEN rmap[doc_id] ELSE <<>>
        hits == {i \in 1..Len(items) : items[i].page_start <= page /\ page <= items[i].page_end}
    IN  IF hits = {} THEN None
        ELSE items[CHOOSE i \in hits : \A j \in hits : i <= j].reading_id

\* A Chunk of schemas/models.py; block_ids is {} (None) or {list}. The layout
\* fields (bbox, page_size, image ids), kind, source_path and section_path are
\* not carried: no operation of the model reads them.
MkChunk(chunk_id, doc_id, page, reading_id, content_type, content, s, e, hash, no_cut, blocks) ==
    [chunk_id |-> chunk_id, doc_id |-> doc_id, page |-> page, reading_id |-> reading_id,
     content_type |-> content_type, content |-> content, span |-> <<s, e>>,
     content_hash |-> hash, no_cut |-> no_cut, block_ids |-> blocks]

----------------------------------------------------------------------------
(* chunker.py: the assisted strategy *)

RECURSIVE JoinWith(_, _)
\* sep.join(parts)
JoinWith(parts, sep) ==
    IF parts = <<>> THEN ""
    ELSE IF Len(parts) = 1 THEN parts[1]
    ELSE parts[1] \o sep \o JoinWith(Tail(parts), sep)

RECURSIVE StripAll(_)
\* [t.strip() for t in spans if t.strip()]
StripAll(spans) ==
    IF spans = <<>> THEN <<>>
    ELSE IF Strip(Head(spans)) # "" THEN <<Strip(Head(spans))>> \o StripAll(Tail(spans))
    ELSE StripAll(Tail(spans))

\* a block is [type |-> 0 (text) or 1 (image), spans |-> texts of its spans]
_extract_text_from_block(block) == Strip(JoinWith(StripAll(block.spans), " "))

RECURSIVE TextBlocks(_)
\* the texts of the type-0 blocks that have text; list position is id + 1
TextBlocks(blocks) ==
    IF blocks = <<>> THEN <<>>
    ELSE IF Head(blocks).type = 0 /\ _extract_text_from_block(Head(blocks)) # ""
         THEN <<_extract_text_from_block(Head(blocks))>> \o TextBlocks(Tail(blocks))
         ELSE TextBlocks(Tail(blocks))

ImageBlockCount(blocks) == Cardinality({i \in 1..Len(blocks) : blocks[i].type = 1})

TextOf(text_blocks, ids) == [i \in 1..Len(ids) |-> text_blocks[ids[i] + 1]]

ValidBlockIds(spec_ids, n) == SelectSeq(spec_ids, LAMBDA bid : 0 <= bid /\ bid < n)

\* a faulty variant of the rule below, kept for comparison: the hint decides
HintOnly(spec_no_cut, content_type) == spec_no_cut

\* chunker.py:200
ForceNoCut(spec_no_cut, content_type) ==
    spec_no_cut \/ content_type \in {"table", "formula", "figure"}

\* a faulty variant of the test below, kept for comparison: no content is too
\* short
NeverTooShort(content, min_chunk_chars) == FALSE

\* chunker.py:183 and 258, len(content) < min_chunk_chars
TooShort(content, min_chunk_chars) == Len(content) < min_chunk_chars

\* chunker.py:177-222, one proposal of the classifier: <<>> or <<chunk>>
LlmSpecToChunks(doc_id, page, reading_id, text_blocks, spec, min_chunk_chars) ==
    LET block_ids == ValidBlockIds(spec.block_ids, Len(text_blocks))
        content == Strip(JoinWith(TextOf(text_blocks, block_ids), "\n"))
        content_hash == _sha1(content)
    IN  IF block_ids = <<>> THEN <<>>
        ELSE IF content = "" \/ TooShort(content, min_chunk_chars) THEN <<>>
        ELSE <<MkChunk(_stable_chunk_id_blocks(doc_id, page, block_ids, content_hash),
                       doc_id, page, reading_id, spec.content_type, content,
                       0, Len(content), content_hash,
                       ForceNoCut(spec.no_cut, spec.content_type), {block_ids})>>

RECURSIVE LlmSpecsToChunks(_, _, _, _, _, _)
LlmSpecsToChunks(doc_id, page, reading_id, text_blocks, specs, min_chunk_chars) ==
    IF specs = <<>> THEN <<>>
    ELSE LlmSpecToChunks(doc_id, page, reading_id, text_blocks, Head(specs), min_chunk_chars)
         \o LlmSpecsToChunks(doc_id, page, reading_id, text_blocks, Tail(specs), min_chunk_chars)

\* Whether _page_to_chunks_llm reaches the classifier for this page
LlmCalled(blocks) == TextBlocks(blocks) # <<>> \/ ImageBlockCount(blocks) > 0

\* resp is the classifier's answer [ok, chunks]: ok is FALSE when the call
\* raised, timed out or parsed to nothing, chunks is the list of proposals
\* [block_ids, content_type, no_cut]
_page_to_chunks_llm(doc_id, page, blocks, reading_id, min_chunk_chars, resp) ==
    IF ~LlmCalled(blocks) THEN <<>>
    ELSE IF ~resp.ok THEN <<>>
    ELSE LlmSpecsToChunks(doc_id, page, reading_id, TextBlocks(blocks), resp.chunks,
                          min_chunk_chars)

----------------------------------------------------------------------------
(* chunker.py: the heuristic strategy *)

\* chunker.py:253, the least offset in the window a cut must pass (500 in the
\* source, scaled to the page texts of the model)
MinCutOffset == 2

\* chunker.py:294
ColonMaxLen == 200

\* stands for U+3002, the ideographic full stop, which a TLA+ string cannot hold
IdeographicStop == "~"

\* chunker.py:285-289
triggers ==
    {"exhibit", "table ", "figure ", "question", "solution", "example",
     "step 1", "step 2", "therefore", "derive"}

\* a faulty variant of the rule below, kept for comparison: any boundary
\* marker found in the window is taken as the cut
WindowEndAnyCut(text, start, target_chunk_chars) ==
    LET end == Min2(Len(text), start + target_chunk_chars)
        window == Slice(text, start, end)
        cut == Max2(Max2(RFind(window, "\n"), RFind(window, ". ")),
                    Max2(RFind(window, IdeographicStop), RFind(window, "; ")))
    IN  IF cut > 0 THEN start + cut ELSE end

\* a faulty variant of the window end below, kept for comparison: the window
\* closes at its last boundary marker even when that is its first character
WindowEndAtAnyMarker(text, start, target_chunk_chars) ==
    LET end == Min2(Len(text), start + target_chunk_chars)
        window == Slice(text, start, end)
        cut == Max2(Max2(RFind(window, "\n"), RFind(window, ". ")),
                    Max2(RFind(window, IdeographicStop), RFind(window, "; ")))
    IN  IF cut >= 0 THEN start + cut ELSE end

\* a faulty variant of the window end below, kept for comparison: the window
\* is not clipped to the text
WindowEndUnclipped(text, start, target_chunk_chars) ==
    LET end == start + target_chunk_chars
        window == Slice(text, start, end)
        cut == Max2(Max2(RFind(window, "\n"), RFind(window, ". ")),
                    Max2(RFind(window, IdeographicStop), RFind(window, "; ")))
    IN  IF cut > MinCutOffset THEN start + cut ELSE end

\* chunker.py:249-254: where the window that starts at start closes
WindowEnd(text, start, target_chunk_chars) ==
    LET end == Min2(Len(text), start + target_chunk_chars)
        window == Slice(text, start, end)
        cut == Max2(Max2(RFind(window, "\n"), RFind(window, ". ")),
                    Max2(RFind(window, IdeographicStop), RFind(window, "; ")))
    IN  IF cut > MinCutOffset THEN start + cut ELSE end

\* chunker.py:283-295
HeuristicNoCut(content) ==
    \/ LET lower_content == Lower(content) IN \E t \in triggers : Contains(lower_content, t)
    \/ EndsWith(content, ":") /\ Len(content) < ColonMaxLen

RECURSIVE HeuristicLoop(_, _, _, _, _, _, _)
\* chunker.py:248-318, the while loop from offset start on
HeuristicLoop(doc_id, page, reading_id, text, start, target_chunk_chars, min_chunk_chars) ==
    IF start >= Len(text) THEN <<>>
    ELSE LET end == WindowEnd(text, start, target_chunk_chars)
             content == Strip(Slice(text, start, end))
             content_hash == _sha1(content)
             rest == HeuristicLoop(doc_id, page, reading_id, text, end,
                                   target_chunk_chars, min_chunk_chars)
         IN  IF TooShort(content, min_chunk_chars) \/ content = "" THEN rest
             ELSE <<MkChunk(_stable_chunk_id(doc_id, page, start, end, content_hash),
                            doc_id, page, reading_id, "text", content, start, end,
                            content_hash, HeuristicNoCut(content), {})>> \o rest

_page_to_chunks(doc_id, page, page_text, reading_id, target_chunk_chars, min_chunk_chars) ==
    IF Strip(page_text) = "" THEN <<>>
    ELSE HeuristicLoop(doc_id, page, reading_id, Strip(page_text), 0,
                       target_chunk_chars, min_chunk_chars)

----------------------------------------------------------------------------
(* chunker.py: build_chunks_for_doc *)

\* chunker.py:357 (200 in the source, scaled to the page texts of the model)
ShortPageChars == 4
\* chunker.py:357
ManyDrawings == 10

\* a page layout is [text, blocks, drawings, images]
NeedsVision(layout) ==
    \/ layout.drawings > ManyDrawings
    \/ layout.images > 0
    \/ (0 < Len(layout.text) /\ Len(layout.text) < ShortPageChars)

RECURSIVE SkipChar(_, _, _)
SkipChar(s, i, c) == IF i <= Len(s) /\ CharAt(s, i) = c THEN SkipChar(s, i + 1, c) ELSE i

\* chunker.py:359, the pattern as written: the doubled backslashes of the raw
\* string make "\\s+" a backslash followed by s's and "\\b" a backslash and a b,
\* so a keyword counts only when those characters follow it in the page text
ComplexPattern(text) ==
    LET low == Lower(text) IN
    \E i \in 1..Len(low) :
        /\ WordBoundary(low, i)
        /\ \/ \E w \in {"exhibit", "table", "figure", "equation", "formula", "derivation"} :
                OccursAt(low, i, w \o "\\b")
           \/ /\ OccursAt(low, i, "step\\s")
              /\ OccursAt(low, SkipChar(low, i + 5, "s"), "1\\b")

Payload(rmap, doc_id, page, layout) ==
    [page_num |-> page, text |-> layout.text,
     reading_id |-> _find_reading_id(rmap, doc_id, page),
     blocks |-> layout.blocks,
     needs_vision |-> NeedsVision(layout),
     complex_page |-> NeedsVision(layout) \/ ComplexPattern(layout.text)]

\* chunker.py:385-387
UseLlmPage(cfg, payload) ==
    cfg.use_llm /\ (cfg.llm_mode = "all" \/ (cfg.llm_mode = "vision-only" /\ payload.needs_vision))

\* chunker.py:389
ModelForPage(cfg, payload) ==
    IF cfg.llm_model_complex # None /\ cfg.llm_model_complex # "" /\ payload.complex_page
    THEN cfg.llm_model_complex ELSE cfg.llm_model

\* chunker.py:403
Escalates(cfg, payload, first) ==
    first = <<>> /\ payload.blocks # <<>> /\ ModelForPage(cfg, payload) # cfg.llm_model

\* a faulty variant of the rule below, kept for comparison: a page whose
\* assisted attempts gave nothing is left without chunks
KeepEmpty(page_chunks, heuristic) == page_chunks

\* chunker.py:423-433: the heuristic strategy runs when page_chunks is empty
HeuristicIfEmpty(page_chunks, heuristic) ==
    IF page_chunks # <<>> THEN page_chunks ELSE heuristic

\* chunker.py:374-434. env is what the collaborators answer on this page:
\* client_ok (whether _get_genai_client returns), r1 and r2 (the classifier's
\* answers to the first and to the second call). The result names the models
\* the classifier was called with, in order.
_process_page(doc_id, cfg, payload, env) ==
    LET page == payload.page_num
        llm == UseLlmPage(cfg, payload)
        first == _page_to_chunks_llm(doc_id, page, payload.blocks, payload.reading_id,
                                     cfg.min_chunk_chars, env.r1)
        again == Escalates(cfg, payload, first)
        second == _page_to_chunks_llm(doc_id, page, payload.blocks, payload.reading_id,
                                      cfg.min_chunk_chars, env.r2)
        page_chunks == IF ~llm THEN <<>> ELSE IF again THEN second ELSE first
        calls == IF ~llm \/ ~LlmCalled(payload.blocks) THEN <<>>
                 ELSE IF again THEN <<ModelForPage(cfg, payload), cfg.llm_model>>
                 ELSE <<ModelForPage(cfg, payload)>>
    IN  IF llm /\ ~env.client_ok
        THEN [raised |-> TRUE, chunks |-> <<>>, calls |-> <<>>, strategy |-> "none"]
        ELSE [raised |-> FALSE,
              chunks |-> HeuristicIfEmpty(page_chunks,
                                          _page_to_chunks(doc_id, page, payload.text,
                                                          payload.reading_id,
                                                          cfg.target_chunk_chars,
                                                          cfg.min_chunk_chars)),
              calls |-> calls,
              strategy |-> IF page_chunks # <<>> THEN "assisted" ELSE "heuristic"]

\* a faulty variant of the rule below, kept for comparison: the exception of a
\* pool worker leaves the function too
LeavesBuildAlways(pool, raised) == raised

\* chunker.py:442-446 and 455: an exception of _process_page leaves
\* build_chunks_for_doc unless the page ran in the worker pool, where
\* future.result() is inside a try
LeavesBuild(pool, raised) == raised /\ ~pool

RECURSIVE PagesFrom(_, _, _, _, _, _)
\* chunker.py:436-459: the lines written for pages i.. of the document, in page
\* order. In parallel mode a page whose worker raised contributes nothing; in
\* serial mode the exception leaves the function, after the lines of the
\* earlier pages.
PagesFrom(doc_id, rmap, layouts, cfg, envs, i) ==
    IF i > Len(layouts) THEN [raised |-> FALSE, rows |-> <<>>]
    ELSE LET res == _process_page(doc_id, cfg, Payload(rmap, doc_id, i, layouts[i]), envs[i])
             rest == PagesFrom(doc_id, rmap, layouts, cfg, envs, i + 1)
         IN  IF LeavesBuild(cfg.use_llm /\ cfg.parallel > 1, res.raised)
             THEN [raised |-> TRUE, rows |-> <<>>]
             ELSE [raised |-> rest.raised, rows |-> res.chunks \o rest.rows]

\* chunker.py:323-462: the content of <doc_id>.jsonl when the call ends
build_chunks_for_doc(doc_id, rmap, layouts, cfg, envs) ==
    PagesFrom(doc_id, rmap, layouts, cfg, envs, 1)

----------------------------------------------------------------------------
(* vision_extract.py *)

\* json.dumps(asset.model_dump(), sort_keys=True) of an asset [type, text]
AssetJson(asset) == "{" \o asset.type \o ":" \o asset.text \o "}"

\* vision_extract.py:108-146
_asset_to_chunk(doc_id, reading_id, page, asset) ==
    LET content_hash == _sha1(AssetJson(asset))
        chunk_id == _sha1(doc_id \o "|p" \o IntToStr(page) \o "|" \o asset.type
                          \o "|" \o content_hash)
        content == IF asset.type = "formula" THEN "Formula: " \o asset.text
                   ELSE IF asset.type = "figure" THEN "Figure: " \o asset.text
                   ELSE "Table: " \o asset.text
    IN  MkChunk(chunk_id, doc_id, page, reading_id, asset.type, content, 0, 0,
                content_hash, TRUE, {})

RECURSIVE AssetsToChunks(_, _, _, _)
AssetsToChunks(doc_id, reading_id, page, assets) ==
    IF assets = <<>> THEN <<>>
    ELSE <<_asset_to_chunk(doc_id, reading_id, page, Head(assets))>>
         \o AssetsToChunks(doc_id, reading_id, page, Tail(assets))

RECURSIVE VisionChunks(_, _, _, _)
\* vision_extract.py:194-228: pages is the list of pages processed (after the
\* formula-page filter), answers[i] the extractor's answer for pages[i]:
\* [ok, assets], ok being FALSE when the retries ran out
VisionChunks(doc_id, reading_id, pages, answers) ==
    IF pages = <<>> THEN <<>>
    ELSE (IF ~Head(answers).ok THEN <<>>
          ELSE AssetsToChunks(doc_id, reading_id, Head(pages), Head(answers).assets))
         \o VisionChunks(doc_id, reading_id, Tail(pages), Tail(answers))

\* vision_extract.py:230-233: the chunk files after the append
AppendChunks(files, doc_id, new_chunks) ==
    IF new_chunks = <<>> THEN files
    ELSE IF doc_id \in DOMAIN files
         THEN [files EXCEPT ![doc_id] = @ \o new_chunks]
         ELSE (doc_id :> new_chunks) @@ files

----------------------------------------------------------------------------
(* retrieval.py *)

\* ticks of the clock in one second
TicksPerSecond == 2

\* retrieval.py:19-20: time.strftime("%Y%m%dT%H%M%S"), the clock cut to whole
\* seconds and written as digits
_run_id(clock) == IntToStr(clock \div TicksPerSecond)

\* re.search(r"(\\d+)", raw) as written: the doubled backslash of the raw
\* string makes the pattern a backslash followed by one or more d's. Group 1 of
\* the leftmost match, or NoMatch.
SearchBackslashD(raw) ==
    LET hits == {i \in 1..Len(raw) : OccursAt(raw, i, "\\d")}
    IN  IF hits = {} THEN NoMatch
        ELSE LET i == CHOOSE h \in hits : \A j \in hits : h <= j
             IN  SubSeq(raw, i, SkipChar(raw, i + 2, "d") - 1)

\* retrieval.py:33-43: [ok, ids]; ok is FALSE when int() raises ValueError
_reading_id_aliases(reading_id) ==
    LET raw == Strip(IF reading_id = None THEN "" ELSE reading_id)
        m == SearchBackslashD(raw)
    IN  IF m = NoMatch THEN [ok |-> TRUE, ids |-> {raw}]
        ELSE IF ~IsDigitStr(m) THEN [ok |-> FALSE, ids |-> {}]
        ELSE LET n == IntToStr(ParseInt(m))
             IN  [ok |-> TRUE,
                  ids |-> {raw, n, "R" \o n, "Reading " \o n, "Learning Module " \o n}]

\* retrieval.py:46-55: [ok, items] for the lines rows of a chunk file
load_chunks_for_reading(rows, reading_id) ==
    LET al == _reading_id_aliases(reading_id)
        aliases == {Lower(rid) : rid \in al.ids}
        Rid(r) == Lower(Strip(IF r.reading_id = None THEN "" ELSE r.reading_id))
    IN  [ok |-> al.ok,
         items |-> IF al.ok
                   THEN SelectSeq(rows, LAMBDA r : Rid(r) # "" /\ Rid(r) \in aliases)
                   ELSE <<>>]

\* retrieval.py:171 and 203
SameDocK == 12
CrossRefK == 8

\* index locations: one directory per document and the unified one
PerDoc(doc_id) == "chroma/" \o doc_id
Unified == "chroma/unified"

\* a RetrievalHit of an index entry (score and snippet, which are for display,
\* are not carried)
HitOf(entry) == [chunk_id |-> entry.id, doc_id |-> entry.doc_id, page |-> entry.page]

FirstK(seq, k) == IF Len(seq) <= k THEN seq ELSE SubSeq(seq, 1, k)

\* retrieval.py:86-125 on the collection col = [state, entries]. where is {} or
\* {doc_id}. fault is what the embedding service and the engine do on this
\* call: "none", "error" (any failure) or "error_notfound" (a failure whose
\* message contains "does not exist" or "NotFound"). A missing collection makes
\* get_collection raise with such a message. The engine's ranking is taken
\* to be the order of insertion.
chroma_query(col, k, where, fault) ==
    IF col.state # "ok" THEN [ok |-> FALSE, notfound_msg |-> TRUE, hits |-> <<>>]
    ELSE IF fault # "none"
         THEN [ok |-> FALSE, notfound_msg |-> fault = "error_notfound", hits |-> <<>>]
    ELSE LET match == SelectSeq(col.entries, LAMBDA e : where = {} \/ e.doc_id \in where)
         IN  [ok |-> TRUE, notfound_msg |-> FALSE,
              hits |-> FirstK([i \in 1..Len(match) |-> HitOf(match[i])], k)]

FaultAt(faults, slot) == IF slot \in DOMAIN faults THEN faults[slot] ELSE "none"

\* retrieval.py:162-166
default_queries(doc_id, reading_id) ==
    <<doc_id \o " " \o reading_id \o " key concepts",
      reading_id \o " exam traps common mistakes",
      reading_id \o " formula intuition example">>

\* retrieval.py:195-200
cross_queries(reading_id) ==
    <<reading_id \o " related concepts from other CFA volumes",
      reading_id \o " Schweser explanation simplified version",
      reading_id \o " prerequisite knowledge foundation from V1 Quant",
      reading_id \o " practical application real world examples">>

TopKQuery(q, k, hits) == [query |-> q, k |-> k, hits |-> hits]

\* retrieval.py:174-178: unified is {} (None) or {location}
FallbackApplies(first, unified, cols) ==
    first.notfound_msg /\ unified # {} /\ \A u \in unified : cols[u].state # "nodir"

\* a faulty variant of the retry below, kept for comparison: no doc_id filter
FallbackQueryUnfiltered(cols, unified, doc_id, fault) ==
    chroma_query(cols[CHOOSE u \in unified : TRUE], SameDocK, {}, fault)

\* retrieval.py:183
FallbackQuery(cols, unified, doc_id, fault) ==
    chroma_query(cols[CHOOSE u \in unified : TRUE], SameDocK, {doc_id}, fault)

\* retrieval.py:170-186, one turn of the loop: [ok, entry]
SameDocQuery(cols, doc_id, unified, q, i, faults) ==
    LET first == chroma_query(cols[PerDoc(doc_id)], SameDocK, {}, FaultAt(faults, <<"q", i>>))
        retry == FallbackQuery(cols, unified, doc_id, FaultAt(faults, <<"fb", i>>))
    IN  IF first.ok THEN [ok |-> TRUE, entry |-> TopKQuery(q, SameDocK, first.hits)]
        ELSE IF FallbackApplies(first, unified, cols)
             THEN [ok |-> retry.ok, entry |-> TopKQuery(q, SameDocK, retry.hits)]
        ELSE [ok |-> FALSE, entry |-> TopKQuery(q, SameDocK, <<>>)]

RECURSIVE SameDocQueries(_, _, _, _, _, _)
\* retrieval.py:168-186 from query i on: [ok, top_k]; the first error that
\* is not absorbed leaves the function
SameDocQueries(cols, doc_id, unified, qs, i, faults) ==
    IF i > Len(qs) THEN [ok |-> TRUE, top_k |-> <<>>]
    ELSE LET one == SameDocQuery(cols, doc_id, unified, qs[i], i, faults)
             rest == SameDocQueries(cols, doc_id, unified, qs, i + 1, faults)
         IN  IF ~one.ok THEN [ok |-> FALSE, top_k |-> <<>>]
             ELSE [ok |-> rest.ok, top_k |-> <<one.entry>> \o rest.top_k]

\* retrieval.py:189-208
CrossRefQueries(cols, reading_id, cross_ref, unified, faults) ==
    IF ~cross_ref \/ unified = {} THEN <<>>
    ELSE LET col == cols[CHOOSE u \in unified : TRUE]
             qs == cross_queries(reading_id)
         IN  IF col.state # "ok" THEN <<>>
             ELSE [j \in 1..Len(qs) |->
                     TopKQuery(qs[j], CrossRefK,
                               chroma_query(col, CrossRefK, {}, FaultAt(faults, <<"x", j>>)).hits)]

\* a faulty variant of the guard below, kept for comparison: it never fires
NoChunksFoundNever(reading_fulltext) == FALSE

\* retrieval.py:157
NoChunksFound(reading_fulltext) == reading_fulltext = <<>>

\* retrieval.py:128-231: what a call does, given the chunk files, the indexes
\* and the clock: status, the directory it made, the chunks it loaded and the
\* packet it wrote when status is "ok"
build_evidence_packet(files, cols, clock, doc_id, reading_id, cross_ref, unified, faults) ==
    LET run_id == _run_id(clock)
        out_dir == <<doc_id, reading_id, run_id>>
        loaded == load_chunks_for_reading(files[doc_id], reading_id)
        same == SameDocQueries(cols, doc_id, unified,
                               default_queries(doc_id, reading_id), 1, faults)
        cross == CrossRefQueries(cols, reading_id, cross_ref, unified, faults)
        status == IF doc_id \notin DOMAIN files THEN "FileNotFoundError"
                  ELSE IF ~loaded.ok THEN "ValueError"
                  ELSE IF NoChunksFound(loaded.items) THEN "ValueError"
                  ELSE IF ~same.ok THEN "QueryError"
                  ELSE "ok"
    IN  [status |-> status,
         out_dir |-> out_dir,
         loaded |-> IF doc_id \in DOMAIN files THEN loaded.items ELSE <<>>,
         no_match |-> doc_id \in DOMAIN files /\ loaded.ok /\ loaded.items = <<>>,
         packet |-> IF status # "ok" THEN {}
                    ELSE {[doc_id |-> doc_id, reading_id |-> reading_id, run_id |-> run_id,
                           reading_fulltext |-> loaded.items,
                           top_k |-> same.top_k \o cross,
                           meta |-> [built_at |-> _run_id(clock),
                                     queries |-> default_queries(doc_id, reading_id)
                                                 \o [j \in 1..Len(cross) |-> cross[j].query],
                                     cross_ref_enabled |-> cross_ref]]}]

\* retrieval.py:151 and 228-229: the runs directory after the call
RunsAfter(dirs, res) ==
    LET made == IF res.out_dir \in DOMAIN dirs THEN dirs ELSE (res.out_dir :> {}) @@ dirs
    IN  IF res.status = "ok" THEN [made EXCEPT ![res.out_dir] = res.packet] ELSE made

----------------------------------------------------------------------------
(* The documents, configurations and collaborator answers of the model *)

DocIds == {"d1", "d2"}

\* lines a chunk file may hold
MaxRows == 4
\* run directories the runs location may hold
MaxRunDirs == 1
\* the clock stops after this many ticks
MaxTicks == 2
\* collaborator calls that may fail during one build_evidence_packet call
MaxFaults == 1

\* build_chunks_for_doc's target_chunk_chars and min_chunk_chars (1800 and 50 by
\* default, scaled to the page texts of the model)
TargetChunkChars == 6
MinChunkChars == 2

TextBlock(t) == [type |-> 0, spans |-> <<t>>]
ImageBlock == [type |-> 1, spans |-> <<>>]
Layout(text, blocks, drawings, images) ==
    [text |-> text, blocks |-> blocks, drawings |-> drawings, images |-> images]

\* two documents as the page reader returns them
SampleDocs ==
    [d \in DocIds |->
        IF d = "d1"
        THEN <<Layout("ab. cd", <<TextBlock("ab."), TextBlock(" cd ")>>, 0, 0),
               Layout("ef:\ngh", <<TextBlock("ef:"), ImageBlock, TextBlock("gh")>>, 0, 1)>>
        ELSE <<Layout("gh; ij", <<TextBlock("gh; ij")>>, 0, 0)>>]

Interval(rid, title, first, last) ==
    [reading_id |-> rid, reading_title |-> title, page_start |-> first, page_end |-> last]

\* a reading_map.json as build_reading_map_for_doc leaves it for SampleDocs
SampleReadingMap ==
    [exists |-> TRUE,
     data |-> [d \in DocIds |->
                 IF d = "d1" THEN <<Interval("1", "One", 1, 1), Interval("2", "Two", 2, 2)>>
                 ELSE <<Interval("1", "Uno", 1, 1)>>]]

HeuristicCfg ==
    [use_llm |-> FALSE, llm_mode |-> "all", llm_model |-> "lite", llm_model_complex |-> "flash",
     parallel |-> 1, target_chunk_chars |-> TargetChunkChars, min_chunk_chars |-> MinChunkChars]

NoAnswer == [ok |-> FALSE, chunks |-> <<>>]
QuietEnv == [client_ok |-> TRUE, r1 |-> NoAnswer, r2 |-> NoAnswer]

\* the chunk file of a document after a heuristic build under SampleReadingMap
HeuristicRows(d) ==
    build_chunks_for_doc(d, SampleReadingMap.data, SampleDocs[d], HeuristicCfg,
                         [i \in 1..Len(SampleDocs[d]) |-> QuietEnv]).rows

Idle == [pc |-> "idle"]
NoCall == [made |-> FALSE]

----------------------------------------------------------------------------
(* Evidence packets: chunk builds, vision appends, the clock and            *)
(* build_evidence_packet calls, over indexes built beforehand               *)

\* an index entry of a chunk (index_store.py:88-102)
EntryOf(r) ==
    [id |-> r.chunk_id, doc_id |-> r.doc_id, page |-> r.page,
     reading_id |-> IF r.reading_id = None THEN "" ELSE r.reading_id,
     no_cut |-> IF r.no_cut THEN "True" ELSE "False", content |-> r.content]

Built(rows) == [state |-> "ok", entries |-> [i \in 1..Len(rows) |-> EntryOf(rows[i])]]
Missing(state) == [state |-> state, entries |-> <<>>]

RequestIds == {"1", "R1", "Reading 1", "Learning Module 1", "2", "\\d"}
VisionReadingIds == {"R1"}
VisionAnswers ==
    {[ok |-> FALSE, assets |-> <<>>],
     [ok |-> TRUE, assets |-> <<>>],
     [ok |-> TRUE, assets |-> <<[type |-> "formula", text |-> "E=mc2"]>>]}

\* the collaborator calls that may fail: first and last same-document query,
\* their fallback queries, one cross-reference query
Slots == {<<"q", 1>>, <<"q", 3>>, <<"fb", 1>>, <<"fb", 3>>, <<"x", 2>>}
FaultKinds == {"error", "error_notfound"}
\* what fails during one call: at most MaxFaults of its collaborator calls
FaultSets ==
    UNION {[F -> FaultKinds] : F \in {G \in SUBSET Slots : Cardinality(G) <= MaxFaults}}

AllBuilt ==
    (PerDoc("d1") :> Built(HeuristicRows("d1"))) @@ (PerDoc("d2") :> Missing("nodir"))
    @@ (Unified :> Built(HeuristicRows("d1") \o HeuristicRows("d2")))

\* chunk --doc d --no-llm
PkBuildChunks(d) ==
    /\ chunk_files' = (d :> build_chunks_for_doc(d, reading_map.data, docs[d], HeuristicCfg,
                                                 [i \in 1..Len(docs[d]) |-> QuietEnv]).rows)
                      @@ chunk_files
    /\ last_call' = NoCall
    /\ UNCHANGED <<docs, reading_map, collections, runs, now, map_job, seg_job, idx_job>>

\* process_vision_for_reading_async over the pages first..last
PkVision(d, rid, first, last) ==
    /\ 1 <= first /\ first <= last /\ last <= Len(docs[d])
    /\ \E answers \in [1..(last - first + 1) -> VisionAnswers] :
          LET pages == [i \in 1..(last - first + 1) |-> first + i - 1]
              new_chunks == VisionChunks(d, rid, pages, answers)
          IN  /\ Len(new_chunks) + (IF d \in DOMAIN chunk_files THEN Len(chunk_files[d]) ELSE 0)
                    <= MaxRows
              /\ chunk_files' = AppendChunks(chunk_files, d, new_chunks)
    /\ last_call' = NoCall
    /\ UNCHANGED <<docs, reading_map, collections, runs, now, map_job, seg_job, idx_job>>

Tick ==
    /\ now < MaxTicks
    /\ now' = now + 1
    /\ last_call' = NoCall
    /\ UNCHANGED <<docs, reading_map, chunk_files, collections, runs, map_job, seg_job, idx_job>>

PkCall(d, rid, cross_ref, unified, faults) ==
    LET res == build_evidence_packet(chunk_files, collections, now, d, rid, cross_ref,
                                     unified, faults)
    IN  /\ res.out_dir \in DOMAIN runs \/ Cardinality(DOMAIN runs) < MaxRunDirs
        /\ runs' = RunsAfter(runs, res)
        /\ last_call' = [made |-> TRUE, doc_id |-> d, reading_id |-> rid,
                         cross_ref |-> cross_ref, unified |-> unified, faults |-> faults,
                         res |-> res]
        /\ UNCHANGED <<docs, reading_map, chunk_files, collections, now, map_job, seg_job, idx_job>>

\* Packets over complete indexes: the chunk stream varies
PkInit ==
    /\ docs = SampleDocs
    /\ reading_map = SampleReadingMap
    /\ chunk_files = EmptyMap
    /\ collections = AllBuilt
    /\ runs = EmptyMap
    /\ now = 0
    /\ map_job = Idle
    /\ seg_job = Idle
    /\ idx_job = Idle
    /\ last_call = NoCall

PkNext ==
    \/ PkBuildChunks("d1")
    \/ \E rid \in VisionReadingIds, first \in 1..2, last \in 1..2 :
          PkVision("d1", rid, first, last)
    \/ Tick
    \/ \E rid \in RequestIds : PkCall("d1", rid, FALSE, {}, EmptyMap)

PkSpec == PkInit /\ [][PkNext]_vars

\* Retrieval with fallback: the indexes and the failures vary, over the chunk
\* file of a finished build
FbInit ==
    /\ docs = SampleDocs
    /\ reading_map = SampleReadingMap
    /\ chunk_files = ("d1" :> HeuristicRows("d1"))
    /\ \E own \in {Missing("nocol"), Built(HeuristicRows("d1"))},
          uni \in {Missing("nodir"), Missing("nocol"),
                   Built(HeuristicRows("d2") \o HeuristicRows("d1"))} :
          collections = (PerDoc("d1") :> own) @@ (PerDoc("d2") :> Missing("nodir"))
                        @@ (Unified :> uni)
    /\ runs = EmptyMap
    /\ now = 0
    /\ map_job = Idle
    /\ seg_job = Idle
    /\ idx_job = Idle
    /\ last_call = NoCall

FbNext ==
    \/ Tick
    \/ \E cross_ref \in BOOLEAN, unified \in {{}, {Unified}}, faults \in FaultSets :
          PkCall("d1", "1", cross_ref, unified, faults)

FbSpec == FbInit /\ [][FbNext]_vars

----------------------------------------------------------------------------
(* Index builds: build_chroma_index, one step per collaborator call *)

\* index_store.py:29 and 113, scaled
EmbedBatchSize == 2
InsertBatchSize == 3
\* index_store.py:36 and 40
EmbeddingDim == 768
\* index builds one behaviour may start
MaxBuilds == 2

\* the lengths a returned vector may have
Dims == {EmbeddingDim, EmbeddingDim \div 2}

\* a faulty variant of the check below, kept for comparison: any length passes
DimOkAny(n) == TRUE

\* index_store.py:40
DimOk(n) == n = EmbeddingDim

\* a faulty variant of the clean slate below, kept for comparison: an
\* existing collection is opened as it is
KeepSlate(col) == [state |-> "ok", entries |-> col.entries]

\* index_store.py:63-74: the collection after delete_collection and
\* create_collection
CleanSlate(col) == [state |-> "ok", entries |-> <<>>]

\* sorted(chunks_dir.glob("*.jsonl")) for the documents of the model
DocOrder == <<"d1", "d2">>

RECURSIVE RowsOfFiles(_, _)
\* index_store.py:85-87: the rows of the files from position i of DocOrder on
RowsOfFiles(files, i) ==
    IF i > Len(DocOrder) THEN <<>>
    ELSE (IF DocOrder[i] \in DOMAIN files THEN files[DocOrder[i]] ELSE <<>>)
         \o RowsOfFiles(files, i + 1)

\* index_store.py:80-86: chunks_dir is one document's file for a per-document
\* index and the chunks directory for the unified one
SourceRows(files, loc) ==
    IF loc = Unified THEN RowsOfFiles(files, 1)
    ELSE LET ds == {d \in DOMAIN files : PerDoc(d) = loc}
         IN  IF ds = {} THEN <<>> ELSE files[CHOOSE d \in ds : TRUE]

\* a faulty variant of the filter below, kept for comparison: every row is
\* taken
EveryRow(rows, seen) == rows

RECURSIVE FirstOfEachId(_, _)
\* index_store.py:87-102: rows whose chunk_id was not seen earlier in this run
FirstOfEachId(rows, seen) ==
    IF rows = <<>> THEN <<>>
    ELSE IF Head(rows).chunk_id \in seen THEN FirstOfEachId(Tail(rows), seen)
    ELSE <<Head(rows)>> \o FirstOfEachId(Tail(rows), seen \cup {Head(rows).chunk_id})

\* range(i, len, size) has this many turns
BatchCount(len, size) == (len + size - 1) \div size
\* items[i : i + size] for the batch number b, counted from 0
BatchOf(items, b, size) == SubSeq(items, b * size + 1, Min2((b + 1) * size, Len(items)))

NoResponse == [ok |-> TRUE, dims |-> <<>>]
\* what embed_content may answer for n texts
EmbedResponses(n) ==
    {[ok |-> FALSE, dims |-> <<>>]} \cup {[ok |-> TRUE, dims |-> ds] : ds \in [1..n -> Dims]}

\* index_store.py:38-42: the response is accepted
AllDimsOk(resp) == \A i \in 1..Len(resp.dims) : DimOk(resp.dims[i])

\* index_store.py:55-104: up to the first embedding call
IdxStart(loc, delete_fails) ==
    /\ idx_job.pc \in {"idle", "done", "failed"}
    /\ (IF idx_job.pc = "idle" THEN 0 ELSE idx_job.builds) < MaxBuilds
    /\ delete_fails => collections[loc].state = "ok"
    /\ LET to_add == FirstOfEachId(SourceRows(chunk_files, loc), {})
           job == [pc |-> "embedding", loc |-> loc, reason |-> "",
                   builds |-> (IF idx_job.pc = "idle" THEN 0 ELSE idx_job.builds) + 1,
                   had |-> Len(collections[loc].entries),
                   to_add |-> [i \in 1..Len(to_add) |-> EntryOf(to_add[i])],
                   embeddings |-> <<>>, resp |-> NoResponse,
                   embed_calls |-> 0, insert_calls |-> 0]
       IN  IF delete_fails
           THEN /\ idx_job' = [job EXCEPT !.pc = "failed", !.reason = "create", !.to_add = <<>>]
                /\ UNCHANGED collections
           ELSE /\ collections' = [collections EXCEPT ![loc] = CleanSlate(@)]
                /\ idx_job' = IF to_add = <<>> THEN [job EXCEPT !.pc = "done"] ELSE job
    /\ UNCHANGED <<docs, reading_map, chunk_files, runs, now, map_job, seg_job, last_call>>

\* index_store.py:30-45: one turn of the loop of compute_embeddings_in_batches
IdxEmbed ==
    /\ idx_job.pc = "embedding"
    /\ LET batch == BatchOf(idx_job.to_add, idx_job.embed_calls, EmbedBatchSize)
       IN  \E resp \in EmbedResponses(Len(batch)) :
              LET called == [idx_job EXCEPT !.embed_calls = @ + 1, !.resp = resp]
              IN  idx_job' =
                     IF ~resp.ok THEN [called EXCEPT !.pc = "failed", !.reason = "embed_error"]
                     ELSE IF ~AllDimsOk(resp)
                          THEN [called EXCEPT !.pc = "failed", !.reason = "wrong_dim"]
                     ELSE [called EXCEPT
                              !.embeddings = @ \o resp.dims,
                              !.pc = IF called.embed_calls
                                        = BatchCount(Len(idx_job.to_add), EmbedBatchSize)
                                     THEN "inserting" ELSE "embedding"]
    /\ UNCHANGED <<docs, reading_map, chunk_files, collections, runs, now, map_job, seg_job,
                   last_call>>

\* index_store.py:115-123: one turn of the insert loop; the engine may refuse
IdxInsert(accepted) ==
    /\ idx_job.pc = "inserting"
    /\ LET batch == BatchOf(idx_job.to_add, idx_job.insert_calls, InsertBatchSize)
           called == [idx_job EXCEPT !.insert_calls = @ + 1]
       IN  IF accepted
           THEN /\ collections' = [collections EXCEPT ![idx_job.loc].entries = @ \o batch]
                /\ idx_job' = [called EXCEPT
                                  !.pc = IF called.insert_calls
                                            = BatchCount(Len(idx_job.to_add), InsertBatchSize)
                                         THEN "done" ELSE "inserting"]
           ELSE /\ idx_job' = [called EXCEPT !.pc = "failed", !.reason = "insert"]
                /\ UNCHANGED collections
    /\ UNCHANGED <<docs, reading_map, chunk_files, runs, now, map_job, seg_job, last_call>>

\* a formula chunk that vision extraction appended twice, the second time
\* under another form of the reading id: one chunk_id, two reading_id values
TwiceAppended ==
    LET found == <<[ok |-> TRUE, assets |-> <<[type |-> "formula", text |-> "E=mc2"]>>]>>
    IN  HeuristicRows("d1") \o VisionChunks("d1", "1", <<1>>, found)
                            \o VisionChunks("d1", "R1", <<1>>, found)

IdxInit ==
    /\ docs = SampleDocs
    /\ reading_map = SampleReadingMap
    /\ chunk_files \in {EmptyMap,
                        ("d1" :> HeuristicRows("d1")) @@ ("d2" :> HeuristicRows("d2")),
                        ("d1" :> TwiceAppended)}
    /\ \E own \in {Missing("nodir"), Built(HeuristicRows("d2"))},
          uni \in {Missing("nodir"), Built(HeuristicRows("d2"))} :
          collections = (PerDoc("d1") :> own) @@ (PerDoc("d2") :> Missing("nodir"))
                        @@ (Unified :> uni)
    /\ runs = EmptyMap
    /\ now = 0
    /\ map_job = Idle
    /\ seg_job = Idle
    /\ idx_job = Idle
    /\ last_call = NoCall

IdxNext ==
    \/ \E loc \in {PerDoc("d1"), Unified}, delete_fails \in BOOLEAN : IdxStart(loc, delete_fails)
    \/ IdxEmbed
    \/ \E accepted \in BOOLEAN : IdxInsert(accepted)

IdxSpec == IdxInit /\ [][IdxNext]_vars

\* the build has met an embedding failure
EmbeddingFailed ==
    /\ idx_job.pc # "idle"
    /\ idx_job.embed_calls > 0
    /\ (~idx_job.resp.ok \/ \E i \in 1..Len(idx_job.resp.dims) : idx_job.resp.dims[i] # 768)

\* C7: no insert call is issued until every embedding batch of the build has
\* returned and every returned vector was found to have exactly 768
\* components; a response with a vector of another length aborts the build
\* before any insert call.
C7_EmbedBeforeInsert ==
    /\ (idx_job.pc # "idle" /\ idx_job.insert_calls > 0) =>
          /\ idx_job.embed_calls = BatchCount(Len(idx_job.to_add), EmbedBatchSize)
          /\ Len(idx_job.embeddings) = Len(idx_job.to_add)
          /\ \A i \in 1..Len(idx_job.embeddings) : idx_job.embeddings[i] = 768
    /\ EmbeddingFailed => (idx_job.pc = "failed" /\ idx_job.insert_calls = 0)
    /\ (idx_job.pc # "idle" /\ idx_job.insert_calls = 0) =>
          collections[idx_job.loc].entries = <<>> \/ idx_job.reason = "create"

\* an insert call was issued after two embedding batches
C7_Witness ==
    /\ idx_job.pc # "idle"
    /\ idx_job.insert_calls > 0
    /\ idx_job.embed_calls > 1
    /\ collections[idx_job.loc].entries # <<>>

\* C8: when an embedding batch call errors or returns a vector of the wrong
\* length build_chroma_index raises and the destination collection has zero
\* entries: none of this build's chunks, none of the previous build's.
C8_FailedBuildLeavesNothing ==
    EmbeddingFailed =>
        /\ idx_job.pc = "failed"
        /\ idx_job.reason \in {"embed_error", "wrong_dim"}
        /\ collections[idx_job.loc] = [state |-> "ok", entries |-> <<>>]

\* the second embedding batch of a rebuild over a populated collection failed
C8_Witness ==
    /\ EmbeddingFailed
    /\ idx_job.embed_calls > 1
    /\ idx_job.had > 0
    /\ idx_job.pc = "failed"

----------------------------------------------------------------------------
(* Reading maps: build_reading_map_for_doc *)

RECURSIVE MatchWords(_, _, _)
\* A pattern of _is_candidate_page matched at position i of the lowercased s:
\* toks is a list of literal words (lower case), "\\s+" and "\\d+", closed by \b
MatchWords(s, i, toks) ==
    IF toks = <<>> THEN WordBoundary(s, i)
    ELSE LET t == Head(toks) IN
         IF t = "\\s+" THEN SkipWhile(s, i, FALSE) > i
                            /\ MatchWords(s, SkipWhile(s, i, FALSE), Tail(toks))
         ELSE IF t = "\\d+" THEN SkipWhile(s, i, TRUE) > i
                                 /\ MatchWords(s, SkipWhile(s, i, TRUE), Tail(toks))
         ELSE OccursAt(s, i, t) /\ MatchWords(s, i + Len(t), Tail(toks))

\* re.search(r"\b" + toks + r"\b", s, IGNORECASE) finds a match
FoundWords(s, toks) ==
    LET low == Lower(s)
    IN  \E i \in 1..Len(s) : WordBoundary(low, i) /\ MatchWords(low, i, toks)

\* reading_map_builder.py:37
CandidateHeadChars == 2000

\* reading_map_builder.py:36-48
_is_candidate_page(text) ==
    LET head == Slice(text, 0, CandidateHeadChars)
    IN  IF FoundWords(head, <<"contents">>) THEN FALSE
        ELSE IF FoundWords(head, <<"learning", "\\s+", "module", "\\s+", "overview">>) THEN TRUE
        ELSE IF FoundWords(head, <<"learning", "\\s+", "outcomes">>) THEN TRUE
        ELSE IF ~(\/ FoundWords(head, <<"reading", "\\s+", "\\d+">>)
                  \/ FoundWords(head, <<"learning", "\\s+", "module", "\\s+", "\\d+">>))
             THEN FALSE
        ELSE IF ~(\/ FoundWords(head, <<"introduction">>)
                  \/ FoundWords(head, <<"los">>)
                  \/ FoundWords(head, <<"learning", "\\s+", "outcomes">>))
             THEN FALSE
        ELSE TRUE

\* reading_map_builder.py:131-145
_normalize_reading_id(value, fallback_idx) ==
    LET raw == Strip(value)
        r == SearchWordNumber(raw, <<"r", "\\s*", "(\\d+)\\b">>)
        lm == SearchWordNumber(raw, <<"learning", "\\s+", "module", "\\s*", "(\\d+)\\b">>)
        rd == SearchWordNumber(raw, <<"reading", "\\s*", "(\\d+)\\b">>)
    IN  IF value = None \/ value = "" THEN IntToStr(fallback_idx)
        ELSE IF r # NoMatch THEN IntToStr(ParseInt(r))
        ELSE IF lm # NoMatch THEN IntToStr(ParseInt(lm))
        ELSE IF rd # NoMatch THEN IntToStr(ParseInt(rd))
        ELSE IF IsDigitStr(raw) THEN IntToStr(ParseInt(raw))
        ELSE IntToStr(fallback_idx)

\* a candidate start; page_start is {} (None) or {n}
Start(rid, title, page_start) ==
    [reading_id |-> rid, reading_title |-> title, page_start |-> page_start]

RECURSIVE TocStartsFrom(_, _, _)
\* reading_map_builder.py:154-167: the loop, given what it has appended
TocStartsFrom(entries, n_pages, reading_starts) ==
    IF entries = <<>> THEN reading_starts
    ELSE LET entry == Head(entries)
             title == Strip(entry.reading_title)
             page_start == IF entry.page_start # NoInt
                              /\ (IntOf(entry.page_start) < 1 \/ IntOf(entry.page_start) > n_pages)
                           THEN NoInt ELSE entry.page_start
         IN  IF title = "" THEN TocStartsFrom(Tail(entries), n_pages, reading_starts)
             ELSE TocStartsFrom(Tail(entries), n_pages,
                     Append(reading_starts,
                            Start(_normalize_reading_id(entry.reading_id, Len(reading_starts) + 1),
                                  title, page_start)))

\* reading_map_builder.py:148-168
_normalize_toc_entries(entries, n_pages) ==
    SelectSeq(TocStartsFrom(entries, n_pages, <<>>),
              LAMBDA r : r.page_start # NoInt /\ IntOf(r.page_start) # 0)

\* reading_map_builder.py:198-214: toc is the extractor's answer [ok, entries]
TocStarts(use_llm, toc, n_pages) ==
    IF use_llm /\ toc.ok /\ toc.entries # <<>> THEN _normalize_toc_entries(toc.entries, n_pages)
    ELSE <<>>

\* reading_map_builder.py:217-224: the pages the scan looks at
CandidatePages(layouts, scan_pages) ==
    {p \in 1..scan_pages : layouts[p].text # "" /\ _is_candidate_page(layouts[p].text)}

RECURSIVE ScanFrom(_, _, _, _, _, _)
\* reading_map_builder.py:217-251 from page p on; candidates are the pages
\* that pass lines 221-224 and confirms gives the answer [ok, is_reading_start,
\* reading_id, reading_title] for each of them
ScanFrom(candidates, scan_pages, use_llm, confirms, p, reading_starts) ==
    IF p > scan_pages THEN reading_starts
    ELSE IF p \notin candidates
         THEN ScanFrom(candidates, scan_pages, use_llm, confirms, p + 1, reading_starts)
    ELSE IF ~use_llm
         THEN ScanFrom(candidates, scan_pages, use_llm, confirms, p + 1,
                       Append(reading_starts,
                              Start(IntToStr(Len(reading_starts) + 1), "", SomeInt(p))))
    ELSE IF ~confirms[p].ok \/ ~confirms[p].is_reading_start
         THEN ScanFrom(candidates, scan_pages, use_llm, confirms, p + 1, reading_starts)
    ELSE ScanFrom(candidates, scan_pages, use_llm, confirms, p + 1,
                  Append(reading_starts,
                         Start(_normalize_reading_id(confirms[p].reading_id,
                                                     Len(reading_starts) + 1),
                               Strip(IF confirms[p].reading_title = None THEN ""
                                     ELSE confirms[p].reading_title),
                               SomeInt(p))))

StartKey(r) == r.reading_id \o "|" \o IntToStr(IntOf(r.page_start))

RECURSIVE DedupStarts(_, _)
\* reading_map_builder.py:254-258: the first start of each reading_id|page_start
DedupStarts(starts, keys) ==
    IF starts = <<>> THEN <<>>
    ELSE IF StartKey(Head(starts)) \in keys THEN DedupStarts(Tail(starts), keys)
    ELSE <<Head(starts)>> \o DedupStarts(Tail(starts), keys \cup {StartKey(Head(starts))})

RECURSIVE InsertByPage(_, _)
InsertByPage(sorted, r) ==
    IF sorted = <<>> THEN <<r>>
    ELSE IF IntOf(r.page_start) < IntOf(Head(sorted).page_start) THEN <<r>> \o sorted
    ELSE <<Head(sorted)>> \o InsertByPage(Tail(sorted), r)

RECURSIVE SortByPage(_, _)
\* reading_map_builder.py:259: sorted(..., key=page_start), which is stable
SortByPage(starts, sorted) ==
    IF starts = <<>> THEN sorted
    ELSE SortByPage(Tail(starts), InsertByPage(sorted, Head(starts)))

\* a faulty variant of the cleaning below, kept for comparison: nothing dropped
KeepNonIncreasing(starts, last_start) == starts

RECURSIVE DropNonIncreasing(_, _)
\* reading_map_builder.py:260-271
DropNonIncreasing(starts, last_start) ==
    IF starts = <<>> THEN <<>>
    ELSE IF IntOf(Head(starts).page_start) <= last_start
         THEN DropNonIncreasing(Tail(starts), last_start)
    ELSE <<Head(starts)>> \o DropNonIncreasing(Tail(starts), IntOf(Head(starts).page_start))

\* reading_map_builder.py:277-281
WithPageEnds(starts, n_pages) ==
    [idx \in 1..Len(starts) |->
        Interval(starts[idx].reading_id, starts[idx].reading_title,
                 IntOf(starts[idx].page_start),
                 IF idx < Len(starts) THEN IntOf(starts[idx + 1].page_start) - 1 ELSE n_pages)]

\* reading_map_builder.py:193; max_pages is {} (None) or {n}
ScanPages(n_pages, max_pages) ==
    IF max_pages # NoInt /\ IntOf(max_pages) # 0 THEN Min2(n_pages, IntOf(max_pages)) ELSE n_pages

\* a faulty variant of the step below, kept for comparison: an empty list of
\* starts is stored like any other
CloseIntervalsUnchecked(candidates, n_pages) ==
    [raised |-> FALSE,
     intervals |-> WithPageEnds(DropNonIncreasing(SortByPage(DedupStarts(candidates, {}), <<>>), 0),
                                n_pages)]

\* reading_map_builder.py:253-281 on the candidate starts: [raised, intervals]
CloseIntervals(candidates, n_pages) ==
    LET reading_starts == DropNonIncreasing(SortByPage(DedupStarts(candidates, {}), <<>>), 0)
    IN  IF reading_starts = <<>> THEN [raised |-> TRUE, intervals |-> <<>>]
        ELSE [raised |-> FALSE, intervals |-> WithPageEnds(reading_starts, n_pages)]

\* a faulty variant of the merge below, kept for comparison: the file is
\* written with the entry of this document only
ReplaceReadingMap(rmap, doc_id, intervals) ==
    [exists |-> TRUE, data |-> (doc_id :> intervals)]

\* reading_map_builder.py:284-289
MergeReadingMap(rmap, doc_id, intervals) ==
    [exists |-> TRUE,
     data |-> [d \in DOMAIN rmap.data \cup {doc_id} |->
                 IF d = doc_id THEN intervals ELSE rmap.data[d]]]

\* what the collaborators may answer
MaxToc == 3
\* map builds one behaviour may run
MaxMapBuilds == 2
TocEntry(rid, title, page_start) ==
    [reading_id |-> rid, reading_title |-> title, page_start |-> page_start]
TocEntries ==
    {TocEntry(rid, "T", p) : rid \in {None, "R2"}, p \in {SomeInt(1), SomeInt(3)}}
    \cup {TocEntry(None, "T", NoInt), TocEntry(None, "T", SomeInt(0)),
          TocEntry(None, " ", SomeInt(1))}
TocAnswers ==
    {[ok |-> FALSE, entries |-> <<>>]}
    \cup {[ok |-> TRUE, entries |-> es] : es \in SeqsUpTo(TocEntries, MaxToc)}
ConfirmAnswers ==
    {[ok |-> FALSE, is_reading_start |-> FALSE, reading_id |-> None, reading_title |-> None],
     [ok |-> TRUE, is_reading_start |-> FALSE, reading_id |-> None, reading_title |-> None],
     [ok |-> TRUE, is_reading_start |-> TRUE, reading_id |-> None, reading_title |-> None],
     [ok |-> TRUE, is_reading_start |-> TRUE, reading_id |-> "Reading 7", reading_title |-> "T "]}

\* the documents whose maps are built
MapDocs ==
    [d \in DocIds |->
        IF d = "d1"
        THEN <<Layout("Contents", <<>>, 0, 0),
               Layout("Reading 1 LOS", <<>>, 0, 0),
               Layout("Learning\nOutcomes", <<>>, 0, 0)>>
        ELSE <<Layout("", <<>>, 0, 0),
               Layout("module overview", <<>>, 0, 0)>>]

\* a faulty variant of the test below, kept for comparison: the pages are
\* scanned whatever the table of contents gave
ScanAlways(reading_starts) == TRUE

\* reading_map_builder.py:216, `if not reading_starts`
ScanNeeded(reading_starts) == reading_starts = <<>>

\* build_reading_map_for_doc (reading_map_builder.py:171-291) with the
\* answers of the TOC extractor and of the per-page confirmation. The job
\* records the branch taken at line 216 (source), whether the extractor was
\* asked and answered, the start pages its accepted entries name, and the pages
\* on which the confirmer was called.
MapBuild(doc_id, use_llm, max_pages) ==
    LET n_pages == Len(docs[doc_id])
        scan_pages == ScanPages(n_pages, max_pages)
        builds == IF map_job.pc = "idle" THEN 0 ELSE map_job.builds
        Finish(starts, source, toc, from_toc, confirmed) ==
            LET res == CloseIntervals(starts, n_pages)
            IN  /\ reading_map' = IF res.raised THEN reading_map
                                  ELSE MergeReadingMap(reading_map, doc_id, res.intervals)
                /\ map_job' = [pc |-> IF res.raised THEN "raised" ELSE "returned",
                               doc_id |-> doc_id, source |-> source, builds |-> builds + 1,
                               found |-> Len(starts),
                               dropped |-> Len(starts) - Len(res.intervals),
                               use_llm |-> use_llm, toc_ok |-> toc.ok,
                               toc_pages |-> {IntOf(from_toc[i].page_start) :
                                                 i \in 1..Len(from_toc)},
                               confirmed |-> confirmed]
    IN  /\ builds < MaxMapBuilds
        /\ \E candidates \in {CandidatePages(docs[doc_id], scan_pages)} :
           \E toc \in (IF use_llm THEN TocAnswers ELSE {[ok |-> FALSE, entries |-> <<>>]}) :
              LET from_toc == TocStarts(use_llm, toc, n_pages)
              IN  IF ~ScanNeeded(from_toc) THEN Finish(from_toc, "toc", toc, from_toc, {})
                  ELSE \E confirms \in [candidates -> IF use_llm THEN ConfirmAnswers
                                                      ELSE {CHOOSE a \in ConfirmAnswers : ~a.ok}] :
                          Finish(ScanFrom(candidates, scan_pages, use_llm, confirms, 1, from_toc),
                                 "scan", toc, from_toc,
                                 IF use_llm THEN candidates ELSE {})
        /\ UNCHANGED <<docs, chunk_files, collections, runs, now, seg_job, idx_job, last_call>>

MapInit ==
    /\ docs = MapDocs
    /\ reading_map = [exists |-> FALSE, data |-> EmptyMap]
    /\ chunk_files = EmptyMap
    /\ collections = AllBuilt
    /\ runs = EmptyMap
    /\ now = 0
    /\ map_job = Idle
    /\ seg_job = Idle
    /\ idx_job = Idle
    /\ last_call = NoCall

MapNext ==
    \E doc_id \in DocIds, use_llm \in BOOLEAN, max_pages \in {NoInt, SomeInt(2)} :
        (use_llm => max_pages = NoInt) /\ MapBuild(doc_id, use_llm, max_pages)

MapSpec == MapInit /\ [][MapNext]_vars

\* C1: the interval list a successful build stores for a document is
\* non-empty, has page_start strictly increasing, 1 <= page_start <= page_end
\* in every interval, each page_end equal to the next page_start minus one (no
\* page in two intervals), and the last page_end equal to the page count.
C1_IntervalInvariant ==
    \A d \in DOMAIN reading_map.data :
        LET iv == reading_map.data[d]
        IN  /\ iv # <<>>
            /\ \A i \in 1..Len(iv) :
                  /\ 1 <= iv[i].page_start
                  /\ iv[i].page_start <= iv[i].page_end
                  /\ i < Len(iv) => /\ iv[i].page_start < iv[i + 1].page_start
                                    /\ iv[i].page_end = iv[i + 1].page_start - 1
            /\ \A i \in 1..Len(iv), j \in 1..Len(iv) :
                  i # j => (iv[i].page_end < iv[j].page_start \/ iv[j].page_end < iv[i].page_start)
            /\ iv[Len(iv)].page_end = Len(docs[d])

\* a build from a TOC answer stored two intervals after a candidate start was
\* dropped
C1_Witness ==
    /\ map_job.pc = "returned"
    /\ map_job.source = "toc"
    /\ map_job.dropped > 0
    /\ Len(reading_map.data[map_job.doc_id]) = 2

----------------------------------------------------------------------------
(* Segmentation: chunk builds with the classifier's answers, and vision     *)
(* appends                                                                  *)

\* chunk builds one behaviour may run
MaxSegBuilds == 2

Proposal(block_ids, content_type, no_cut) ==
    [block_ids |-> block_ids, content_type |-> content_type, no_cut |-> no_cut]

\* what the classifier may answer on a page
ClassifierAnswers ==
    {NoAnswer,
     [ok |-> TRUE, chunks |-> <<Proposal(<<0>>, "table", FALSE)>>],
     [ok |-> TRUE, chunks |-> <<Proposal(<<1, 0, 5>>, "text", FALSE)>>]}

\* the first call answers and a second call is not needed, or the first call
\* fails and the second answers or fails, or no client can be made
PageEnvs ==
    {[client_ok |-> TRUE, r1 |-> a, r2 |-> NoAnswer] : a \in ClassifierAnswers}
    \cup {[client_ok |-> TRUE, r1 |-> NoAnswer, r2 |-> a] : a \in ClassifierAnswers \ {NoAnswer}}
    \cup {[client_ok |-> FALSE, r1 |-> NoAnswer, r2 |-> NoAnswer]}

AssistedCfg ==
    [HeuristicCfg EXCEPT !.use_llm = TRUE]
VisionOnlyCfg ==
    [HeuristicCfg EXCEPT !.use_llm = TRUE, !.llm_mode = "vision-only", !.parallel = 2]

\* the configurations and answers of one build; a page on which the
\* configuration does not consult the classifier gets no answer
BuildInputs(d) ==
    UNION {LET asked == {i \in 1..Len(docs[d]) :
                            UseLlmPage(c, Payload(reading_map.data, d, i, docs[d][i]))}
           IN  {[cfg |-> c, envs |-> e] :
                  e \in {f \in [1..Len(docs[d]) -> PageEnvs] :
                            \A i \in 1..Len(docs[d]) : i \in asked \/ f[i] = QuietEnv}} :
           c \in {HeuristicCfg, AssistedCfg, VisionOnlyCfg}}

ChunksOfPage(rows, page) == SelectSeq(rows, LAMBDA r : r.page = page)

\* chunk --doc d: build_chunks_for_doc writes <d>.jsonl anew
SegBuild(d, input) ==
    LET builds == IF seg_job.pc = "idle" THEN 0 ELSE seg_job.builds
        res == build_chunks_for_doc(d, reading_map.data, docs[d], input.cfg, input.envs)
    IN  /\ builds < MaxSegBuilds
        /\ chunk_files' = (d :> res.rows) @@ chunk_files
        /\ seg_job' = [pc |-> IF res.raised THEN "raised" ELSE "returned",
                       doc_id |-> d, cfg |-> input.cfg, envs |-> input.envs,
                       rows |-> res.rows, builds |-> builds + 1,
                       prev |-> IF seg_job.pc = "idle" THEN {}
                                ELSE {[pc |-> seg_job.pc, doc_id |-> seg_job.doc_id,
                                       cfg |-> seg_job.cfg, envs |-> seg_job.envs,
                                       rows |-> seg_job.rows]}]
        /\ UNCHANGED <<docs, reading_map, collections, runs, now, map_job, idx_job, last_call>>

SegVisionAnswers ==
    {[ok |-> FALSE, assets |-> <<>>],
     [ok |-> TRUE, assets |-> <<[type |-> "formula", text |-> "E=mc2"]>>]}

\* vision --doc d --reading rid over the pages of the reading
SegVision(d, rid) ==
    \E iv \in {reading_map.data[d][i] : i \in 1..Len(reading_map.data[d])} :
        /\ iv.reading_id = rid
        /\ \E answers \in [1..(iv.page_end - iv.page_start + 1) -> SegVisionAnswers] :
              LET pages == [i \in 1..(iv.page_end - iv.page_start + 1) |-> iv.page_start + i - 1]
                  new_chunks == VisionChunks(d, rid, pages, answers)
              IN  /\ new_chunks # <<>>
                  /\ Len(new_chunks) + (IF d \in DOMAIN chunk_files THEN Len(chunk_files[d]) ELSE 0)
                        <= MaxRows
                  /\ chunk_files' = AppendChunks(chunk_files, d, new_chunks)
        /\ UNCHANGED <<docs, reading_map, collections, runs, now, map_job, seg_job, idx_job,
                       last_call>>

SegInit ==
    /\ seg_job = Idle
    /\ docs = SampleDocs
    /\ reading_map = SampleReadingMap
    /\ chunk_files = EmptyMap
    /\ collections = [loc \in {PerDoc("d1"), PerDoc("d2"), Unified} |-> Missing("nodir")]
    /\ runs = EmptyMap
    /\ now = 0
    /\ map_job = Idle
    /\ idx_job = Idle
    /\ last_call = NoCall

SegNext ==
    \/ \E input \in BuildInputs("d1") : SegBuild("d1", input)
    \/ SegVision("d1", "1")

SegSpec == SegInit /\ [][SegNext]_vars

\* the two latest builds were of one document under one configuration
SameBuildTwice ==
    /\ seg_job.pc = "returned"
    /\ \E prev \in seg_job.prev :
          prev.pc = "returned" /\ prev.doc_id = seg_job.doc_id /\ prev.cfg = seg_job.cfg

SameIdsAndContent(rows1, rows2) ==
    {<<rows1[i].chunk_id, rows1[i].content>> : i \in 1..Len(rows1)}
        = {<<rows2[i].chunk_id, rows2[i].content>> : i \in 1..Len(rows2)}

C3_Atomicity ==
    \A d \in DOMAIN chunk_files : \A i \in 1..Len(chunk_files[d]) :
        chunk_files[d][i].content_type \in {"table", "formula", "figure"}
            => chunk_files[d][i].no_cut = TRUE

\* the chunk file holds a table chunk the classifier proposed with the hint
\* no_cut = false, a heuristic chunk and a chunk made of a vision asset
C3_Witness ==
    /\ seg_job.pc = "returned"
    /\ \E i \in 1..Len(seg_job.rows) :
          /\ seg_job.rows[i].content_type = "table"
          /\ seg_job.rows[i].block_ids # {}
          /\ seg_job.rows[i].no_cut
          /\ \E r \in {seg_job.envs[seg_job.rows[i].page].r1, seg_job.envs[seg_job.rows[i].page].r2} :
                \E j \in 1..Len(r.chunks) :
                    r.chunks[j].content_type = "table" /\ ~r.chunks[j].no_cut
    /\ \E i \in 1..Len(chunk_files["d1"]) :
          chunk_files["d1"][i].content_type = "text" /\ chunk_files["d1"][i].block_ids = {}
    /\ \E i \in 1..Len(chunk_files["d1"]) :
          chunk_files["d1"][i].content_type = "formula" /\ chunk_files["d1"][i].span = <<0, 0>>

----------------------------------------------------------------------------
(* Properties of evidence packets *)

\* the reading-id forms that stand for reading number n, lowercased
AliasForms(n) == {Lower(f) : f \in {n, "R" \o n, "Reading " \o n, "Learning Module " \o n}}
ReadingNumbers == {"1", "2"}

\* a and b are forms of one reading number
SameReading(a, b) ==
    \E n \in ReadingNumbers : Lower(Strip(a)) \in AliasForms(n) /\ Lower(Strip(b)) \in AliasForms(n)

IsAliasForm(a) == \E n \in ReadingNumbers : Lower(Strip(a)) \in AliasForms(n)

NonDecreasingPages(items) ==
    \A i \in 1..Len(items), j \in 1..Len(items) : i < j => items[i].page <= items[j].page

\* C4: the reading_fulltext of a packet built for reading r is exactly the
\* chunks of the document's chunk stream whose reading id matches r under alias
\* normalization, none missing, extra or repeated, by non-decreasing page.
C4_PacketFidelity ==
    (last_call.made /\ last_call.res.status = "ok" /\ IsAliasForm(last_call.reading_id)) =>
        \A p \in last_call.res.packet :
            /\ p.reading_fulltext =
                   SelectSeq(chunk_files[last_call.doc_id],
                             LAMBDA r : SameReading(r.reading_id, last_call.reading_id))
            /\ NonDecreasingPages(p.reading_fulltext)

\* C5: requesting a reading under any of the forms n, "R<n>", "Reading <n>",
\* "Learning Module <n>" loads the chunks whose stored reading_id is any of
\* these forms for the same n, and no chunk of another n.
C5_AliasEquivalence ==
    (/\ last_call.made
     /\ last_call.doc_id \in DOMAIN chunk_files
     /\ IsAliasForm(last_call.reading_id)) =>
        /\ last_call.res.status # "ValueError" \/ last_call.res.no_match
        /\ \A i \in 1..Len(chunk_files[last_call.doc_id]) :
              LET r == chunk_files[last_call.doc_id][i]
              IN  SameReading(r.reading_id, last_call.reading_id)
                      <=> (\E j \in 1..Len(last_call.res.loaded) : last_call.res.loaded[j] = r)

\* C9: when no chunk of the stream matches the requested reading id the call
\* raises and writes no packet (the run directories keep what they held); and
\* every packet ever written has a non-empty reading_fulltext.
C9_NoEmptyPacket ==
    /\ [][(last_call'.made /\ last_call'.res.no_match) =>
            /\ last_call'.res.status = "ValueError"
            /\ \A k \in DOMAIN runs' : runs'[k] = IF k \in DOMAIN runs THEN runs[k] ELSE {}]_vars
    /\ [](\A k \in DOMAIN runs : \A p \in runs[k] : p.reading_fulltext # <<>>)

\* a call found no chunk for its reading and left its run directory empty
C9_Witness ==
    /\ last_call.made
    /\ last_call.doc_id \in DOMAIN chunk_files
    /\ chunk_files[last_call.doc_id] # <<>>
    /\ last_call.res.no_match
    /\ last_call.res.out_dir \in DOMAIN runs
    /\ runs[last_call.res.out_dir] = {}

\* C10: each successful call writes its packet into a run directory that holds
\* no packet of an earlier call, and a packet once written is never overwritten
\* or modified by a later build.
C10_FreshRunDirectory ==
    [][/\ (last_call'.made /\ last_call'.res.status = "ok")
              => (last_call'.res.out_dir \in DOMAIN runs => runs[last_call'.res.out_dir] = {})
       /\ \A k \in DOMAIN runs : runs[k] # {} => (k \in DOMAIN runs' /\ runs'[k] = runs[k])]_vars

----------------------------------------------------------------------------
(* Properties of the fallback policy *)

OwnIndex == collections[PerDoc(last_call.doc_id)]
\* the same-document query i of the last call got an answer from the
\* per-document index
FirstAnswers(i) == OwnIndex.state = "ok" /\ <<"q", i>> \notin DOMAIN last_call.faults
\* its failure is an index-missing error
FirstIndexMissing(i) ==
    \/ OwnIndex.state # "ok"
    \/ (<<"q", i>> \in DOMAIN last_call.faults /\ last_call.faults[<<"q", i>>] = "error_notfound")
UnifiedPresent == last_call.unified # {} /\ collections[Unified].state # "nodir"
RetryAnswers(i) == collections[Unified].state = "ok" /\ <<"fb", i>> \notin DOMAIN last_call.faults
Served(i) == FirstAnswers(i) \/ (FirstIndexMissing(i) /\ UnifiedPresent /\ RetryAnswers(i))
OwnHits == [n \in 1..Len(OwnIndex.entries) |-> HitOf(OwnIndex.entries[n])]
UnifiedHitsOfDoc ==
    LET es == SelectSeq(collections[Unified].entries, LAMBDA e : e.doc_id = last_call.doc_id)
    IN  [n \in 1..Len(es) |-> HitOf(es[n])]

\* C6: each same-document query uses the per-document index when it answers;
\* when that fails with an index-missing error and a unified index is
\* configured and present, the same query with the same k goes to the unified
\* index filtered by the requested doc_id and its hits come back in a TopKQuery
\* of the same shape; in every other case the error reaches the caller.
C6_FallbackPolicy ==
    (last_call.made /\ last_call.res.status \in {"ok", "QueryError"}) =>
        /\ last_call.res.status = "ok" <=> \A i \in 1..3 : Served(i)
        /\ \A p \in last_call.res.packet : \A i \in 1..3 :
              p.top_k[i] =
                 [query |-> default_queries(last_call.doc_id, last_call.reading_id)[i],
                  k |-> 12,
                  hits |-> IF FirstAnswers(i) THEN FirstK(OwnHits, 12)
                           ELSE FirstK(UnifiedHitsOfDoc, 12)]

\* a packet whose first query was answered by the unified index
C6_Witness ==
    /\ last_call.made
    /\ last_call.res.status = "ok"
    /\ ~FirstAnswers(1)
    /\ \A p \in last_call.res.packet : p.top_k[1].hits # <<>> /\ p.top_k[1].hits # FirstK(OwnHits, 12)

----------------------------------------------------------------------------
(* build_chunks_for_doc step by step: the file is opened for writing, the   *)
(* pages are processed one at a time (serial mode) or by the workers of a   *)
(* pool in any order (parallel mode), and the lines are written             *)

\* chunk builds one behaviour may run step by step
MaxBdBuilds == 1

ParallelCfg == [AssistedCfg EXCEPT !.parallel = 2]

\* the documents of a step-by-step build: the sample documents, d2 with a
\* second page, outside every reading, that opens with a one-character line
BdDocs ==
    [SampleDocs EXCEPT !["d2"] = Append(@, Layout("x  \nabcd",
                                                  <<TextBlock("x"), TextBlock("abcd")>>, 0, 0))]

\* what the classifier may answer on a page of a step-by-step build: the
\* answers above, one that names the text blocks 0 and 1 twice, in both
\* orders, and one that names each of them once
BdAnswers ==
    ClassifierAnswers
    \cup {[ok |-> TRUE, chunks |-> <<Proposal(<<0, 1>>, "text", FALSE),
                                     Proposal(<<1, 0>>, "text", FALSE)>>],
          [ok |-> TRUE, chunks |-> <<Proposal(<<0>>, "text", FALSE),
                                     Proposal(<<1>>, "text", FALSE)>>]}

BdEnvs ==
    PageEnvs \cup {[client_ok |-> TRUE, r1 |-> a, r2 |-> NoAnswer] : a \in BdAnswers}

BdInputs(d) ==
    {[cfg |-> c, envs |-> e] : c \in {AssistedCfg, ParallelCfg},
                               e \in [1..Len(docs[d]) -> BdEnvs]}

\* a faulty variant of the order below, kept for comparison: the pages are
\* written in the order their workers completed
CompletionOrder(results) == results

\* chunker.py:448, sorted(results.keys()): the per-page results by page number
SortedResults(results) ==
    LET pages == {results[i].page : i \in 1..Len(results)}
        Nth(k) == CHOOSE i \in 1..Len(results) :
                     Cardinality({q \in pages : q < results[i].page}) = k - 1
    IN  [k \in 1..Len(results) |-> results[Nth(k)]]

RECURSIVE RowsOfResults(_)
\* chunker.py:448-452 and 454-459: the lines of the results, one after another
RowsOfResults(results) ==
    IF results = <<>> THEN <<>>
    ELSE Head(results).chunks \o RowsOfResults(Tail(results))

\* a faulty variant of the open below, kept for comparison: an existing file
\* keeps its lines
OpenForAppending(files, d) == IF d \in DOMAIN files THEN files ELSE (d :> <<>>) @@ files

\* chunker.py:337-344, out_file.open("w"): <d>.jsonl is created or emptied
OpenForWriting(files, d) == (d :> <<>>) @@ files

\* chunker.py:337-372: the file is opened and the payloads of all pages are
\* computed; before is what <d>.jsonl held, {} when there was no such file
BdStart(d, input) ==
    /\ seg_job.pc # "running"
    /\ (IF seg_job.pc = "idle" THEN 0 ELSE seg_job.builds) < MaxBdBuilds
    /\ chunk_files' = OpenForWriting(chunk_files, d)
    /\ seg_job' = [pc |-> "running", doc_id |-> d, cfg |-> input.cfg, envs |-> input.envs,
                   before |-> IF d \in DOMAIN chunk_files THEN {chunk_files[d]} ELSE {},
                   pending |-> 1..Len(docs[d]), results |-> <<>>,
                   builds |-> (IF seg_job.pc = "idle" THEN 0 ELSE seg_job.builds) + 1]
    /\ UNCHANGED <<docs, reading_map, collections, runs, now, map_job, idx_job, last_call>>

\* chunker.py:436-459: _process_page of page p returns or raises. In serial
\* mode p is the next page, its lines are written at once and an exception
\* leaves the function; in parallel mode p is any page still in the pool, an
\* exception of its worker is logged and leaves the page without chunks, and
\* the lines are written when the last worker has completed.
BdPage(p) ==
    /\ seg_job.pc = "running"
    /\ p \in seg_job.pending
    /\ LET d == seg_job.doc_id
           cfg == seg_job.cfg
           pool == cfg.use_llm /\ cfg.parallel > 1
           res == _process_page(d, cfg, Payload(reading_map.data, d, p, docs[d][p]),
                                seg_job.envs[p])
           result == [page |-> p, raised |-> res.raised, calls |-> res.calls,
                      strategy |-> res.strategy, chunks |-> res.chunks]
           results == Append(seg_job.results, result)
           pending == seg_job.pending \ {p}
       IN  /\ pool \/ \A q \in seg_job.pending : p <= q
           /\ seg_job' = [seg_job EXCEPT
                             !.pending = pending, !.results = results,
                             !.pc = IF LeavesBuild(pool, res.raised) THEN "raised"
                                    ELSE IF pending = {} THEN "returned" ELSE "running"]
           /\ chunk_files' =
                 IF pool
                 THEN IF pending = {}
                      THEN [chunk_files EXCEPT ![d] = @ \o RowsOfResults(SortedResults(results))]
                      ELSE chunk_files
                 ELSE [chunk_files EXCEPT ![d] = @ \o res.chunks]
    /\ UNCHANGED <<docs, reading_map, collections, runs, now, map_job, idx_job, last_call>>

BdInit ==
    /\ seg_job = Idle
    /\ docs = BdDocs
    /\ reading_map = SampleReadingMap
    /\ chunk_files \in {("d2" :> HeuristicRows("d2")),
                        ("d1" :> TwiceAppended) @@ ("d2" :> HeuristicRows("d2"))}
    /\ collections = [loc \in {PerDoc("d1"), PerDoc("d2"), Unified} |-> Missing("nodir")]
    /\ runs = EmptyMap
    /\ now = 0
    /\ map_job = Idle
    /\ idx_job = Idle
    /\ last_call = NoCall

BdNext ==
    \/ \E d \in DocIds : \E input \in BdInputs(d) : BdStart(d, input)
    \/ \E p \in 1..2 : BdPage(p)

BdSpec == BdInit /\ [][BdNext]_vars

\* the step-by-step build has returned and ran its pages in a worker pool
PoolBuildReturned ==
    seg_job.pc = "returned" /\ seg_job.cfg.use_llm /\ seg_job.cfg.parallel > 1

\* C11: in parallel mode, whatever the order in which the page workers
\* complete, the lines written are those of the pages in ascending page number,
\* each page's chunks in the order its strategy produced them: the file equals
\* the page-by-page result of the build on the same answers.
C11_ParallelOrder ==
    PoolBuildReturned =>
        /\ chunk_files[seg_job.doc_id] =
              build_chunks_for_doc(seg_job.doc_id, reading_map.data, docs[seg_job.doc_id],
                                   seg_job.cfg, seg_job.envs).rows
        /\ NonDecreasingPages(chunk_files[seg_job.doc_id])
        /\ \A i \in 1..Len(seg_job.results) :
              ChunksOfPage(chunk_files[seg_job.doc_id], seg_job.results[i].page)
                  = seg_job.results[i].chunks

\* the worker of page 2 completed before the worker of page 1 and both pages
\* have chunks
C11_Witness ==
    /\ PoolBuildReturned
    /\ Len(seg_job.results) = 2
    /\ seg_job.results[1].page = 2
    /\ seg_job.results[1].chunks # <<>>
    /\ seg_job.results[2].chunks # <<>>

----------------------------------------------------------------------------
(* Properties of the step-by-step build *)

\* the step-by-step build has ended and a client was there for every page
EndedWithClient ==
    /\ seg_job.pc \in {"returned", "raised"}
    /\ \A q \in 1..Len(docs[seg_job.doc_id]) : seg_job.envs[q].client_ok

PayloadOf(p) == Payload(reading_map.data, seg_job.doc_id, p, docs[seg_job.doc_id][p])

\* what the assisted strategy makes of the answer resp on page p
AttemptOn(p, resp) ==
    _page_to_chunks_llm(seg_job.doc_id, p, PayloadOf(p).blocks, PayloadOf(p).reading_id,
                        seg_job.cfg.min_chunk_chars, resp)

\* what the heuristic strategy makes of the text of page p
HeuristicOn(p) ==
    _page_to_chunks(seg_job.doc_id, p, PayloadOf(p).text, PayloadOf(p).reading_id,
                    seg_job.cfg.target_chunk_chars, seg_job.cfg.min_chunk_chars)

\* the first classifier attempt on page p failed or gave no valid chunk
FirstAttemptEmpty(p) ==
    UseLlmPage(seg_job.cfg, PayloadOf(p)) /\ AttemptOn(p, seg_job.envs[p].r1) = <<>>

\* so did the retry, where the escalation rule asks for one
EveryAttemptEmpty(p) ==
    /\ FirstAttemptEmpty(p)
    /\ Escalates(seg_job.cfg, PayloadOf(p), <<>>) => AttemptOn(p, seg_job.envs[p].r2) = <<>>

C19_RetryOnce ==
    EndedWithClient =>
        \A i \in 1..Len(seg_job.results) :
            LET r == seg_job.results[i] IN
            /\ Len(r.calls) <= 2
            /\ (FirstAttemptEmpty(r.page) /\ LlmCalled(PayloadOf(r.page).blocks)) =>
                  (Len(r.calls) = 2 /\ r.calls[1] # r.calls[2])

\* the text block ids a chunk of the assisted strategy was made of
BlockIdSet(row) == UNION {{ids[k] : k \in 1..Len(ids)} : ids \in row.block_ids}

\* C20: on the assisted path chunk_id is order-independent: two proposals for
\* the same page that name the same set of text block ids in different orders
\* receive the same chunk_id.
C20_OrderIndependentId ==
    seg_job.pc = "returned" =>
        \A i, j \in 1..Len(chunk_files[seg_job.doc_id]) :
            LET a == chunk_files[seg_job.doc_id][i]
                b == chunk_files[seg_job.doc_id][j]
            IN  (/\ a.block_ids # {} /\ b.block_ids # {}
                 /\ a.page = b.page
                 /\ BlockIdSet(a) = BlockIdSet(b)) => a.chunk_id = b.chunk_id

\* the lines the step-by-step build has written so far
WrittenSoFar ==
    IF seg_job.cfg.use_llm /\ seg_job.cfg.parallel > 1
    THEN IF seg_job.pc = "returned" THEN RowsOfResults(SortedResults(seg_job.results))
         ELSE <<>>
    ELSE RowsOfResults(SelectSeq(seg_job.results, LAMBDA r : ~r.raised))

\* C18: build_chunks_for_doc for document d replaces the whole content of d's
\* chunk file with the chunks of this build (from the moment the build has
\* opened the file, the file holds the lines this build wrote and nothing of
\* what it held before) and neither creates, modifies nor deletes the chunk
\* file of any other document.
C18_OverwriteOwnFileOnly ==
    /\ [](seg_job.pc # "idle" => chunk_files[seg_job.doc_id] = WrittenSoFar)
    /\ [][/\ \A e \in DOMAIN chunk_files :
                e # seg_job'.doc_id => (e \in DOMAIN chunk_files' /\ chunk_files'[e] = chunk_files[e])
          /\ DOMAIN chunk_files' \subseteq DOMAIN chunk_files \cup {seg_job'.doc_id}]_vars

\* a build of d1 has returned over a file that held vision chunks; the file
\* now holds this build's chunks and d2's file is there
C18_Witness ==
    /\ seg_job.pc = "returned"
    /\ seg_job.doc_id = "d1"
    /\ \E old \in seg_job.before : \E i \in 1..Len(old) : old[i].content_type = "formula"
    /\ chunk_files["d1"] # <<>>
    /\ \A i \in 1..Len(chunk_files["d1"]) : chunk_files["d1"][i].content_type # "formula"
    /\ "d2" \in DOMAIN chunk_files

----------------------------------------------------------------------------
(* The heuristic strategy window by window, over page texts made of letters *)
(* and boundary markers                                                     *)

\* pieces a page text of this part is made of, at most
MaxPieces == 5

RECURSIVE HwTexts(_)
\* the page texts of at most n pieces: a letter, a newline, ". ", "; " or the
\* ideographic full stop
HwTexts(n) ==
    IF n = 0 THEN {""}
    ELSE LET shorter == HwTexts(n - 1)
         IN  shorter \cup {t \o piece : t \in shorter,
                                        piece \in {"a", "\n", ". ", "; ", IdeographicStop}}

\* chunker.py:248-259 and 318, one turn of the while loop: the window that
\* starts at start is closed and the next one starts where it ended
HeuristicWindow ==
    /\ seg_job.pc = "windows"
    /\ seg_job.start < Len(seg_job.text)
    /\ LET end == WindowEnd(seg_job.text, seg_job.start, seg_job.target)
       IN  seg_job' = [seg_job EXCEPT !.start = end,
                                      !.closed = {[start |-> seg_job.start, end |-> end]}]
    /\ UNCHANGED <<docs, reading_map, chunk_files, collections, runs, now, map_job, idx_job,
                   last_call>>

\* chunker.py:234 and 242-247: target_chunk_chars is the least or the usual
\* window length, the text is stripped and the first window starts at 0
HwInit ==
    /\ \E page_text \in HwTexts(MaxPieces), target \in {1, TargetChunkChars} :
          /\ Strip(page_text) # ""
          /\ seg_job = [pc |-> "windows", text |-> Strip(page_text), target |-> target,
                        start |-> 0, closed |-> {}]
    /\ docs = SampleDocs
    /\ reading_map = SampleReadingMap
    /\ chunk_files = EmptyMap
    /\ collections = [loc \in {PerDoc("d1"), PerDoc("d2"), Unified} |-> Missing("nodir")]
    /\ runs = EmptyMap
    /\ now = 0
    /\ map_job = Idle
    /\ idx_job = Idle
    /\ last_call = NoCall

HwNext == HeuristicWindow

HwSpec == HwInit /\ [][HwNext]_vars

\* the loop of chunker.py:248-318 is sequential code that waits for nothing:
\* a turn that can be taken is taken
HwLiveSpec == HwSpec /\ WF_vars(HwNext)

\* the offsets, in the window of w, at which a boundary marker starts
MarkerOffsets(w) ==
    LET window == Slice(seg_job.text, w.start, w.start + seg_job.target)
    IN  {c \in 0..(Len(window) - 1) :
            \E m \in {"\n", ". ", IdeographicStop, "; "} : OccursAt(window, c + 1, m)}

RawEnd(w) == IF Len(seg_job.text) < w.start + seg_job.target THEN Len(seg_job.text)
             ELSE w.start + seg_job.target

\* C13: every window [start, end) of the heuristic strategy closes at
\* start + c, c being the greatest offset of a boundary marker in the window,
\* when that offset is past the minimum offset (500), and at the raw window
\* boundary min(len(text), start + target_chunk_chars) otherwise; it never
\* closes at a boundary marker whose offset is the minimum offset or less.
C13_WindowCut ==
    seg_job.pc = "windows" =>
        \A w \in seg_job.closed :
            LET far == {c \in MarkerOffsets(w) : c > MinCutOffset}
            IN  /\ far # {} => \E c \in far : (\A b \in far : b <= c) /\ w.end = w.start + c
                /\ far = {} => w.end = RawEnd(w)
                /\ \A c \in MarkerOffsets(w) : c <= MinCutOffset => w.end # w.start + c

\* the window before closed at a marker past the minimum offset; this one
\* starts with that marker and closed at the raw boundary
C13_Witness ==
    /\ seg_job.pc = "windows"
    /\ \E w \in seg_job.closed :
          /\ w.start > MinCutOffset
          /\ w.start < TargetChunkChars
          /\ 0 \in MarkerOffsets(w)
          /\ w.end = RawEnd(w)

----------------------------------------------------------------------------
(* Packets of single-page readings: one chunk build, vision appends over    *)
(* the pages of the reading, then build_evidence_packet calls               *)

RdInit ==
    /\ seg_job = Idle
    /\ docs = SampleDocs
    /\ reading_map = SampleReadingMap
    /\ chunk_files = EmptyMap
    /\ collections = AllBuilt
    /\ runs = EmptyMap
    /\ now = 0
    /\ map_job = Idle
    /\ idx_job = Idle
    /\ last_call = NoCall

\* the pipeline order: chunk, vision extract, packet
RdNext ==
    \/ seg_job = Idle /\ \E input \in BuildInputs("d1") : SegBuild("d1", input)
    \/ ~last_call.made /\ SegVision("d1", "1")
    \/ \E rid \in ReadingNumbers : PkCall("d1", rid, FALSE, {}, EmptyMap)

RdSpec == RdInit /\ [][RdNext]_vars

\* the intervals of the requested reading in the map of the requested document
IntervalsOfCall ==
    {iv \in {reading_map.data[last_call.doc_id][i] :
                i \in 1..Len(reading_map.data[last_call.doc_id])} :
        iv.reading_id = last_call.reading_id}

\* C14: for a reading whose interval (the one interval of the document's map
\* that carries its id) has page_start = page_end, a packet built for that
\* reading has a non-empty reading_fulltext and every chunk in it has page
\* equal to that single page.
C14_SinglePageReading ==
    (last_call.made /\ last_call.res.status = "ok") =>
        \A iv \in IntervalsOfCall :
            (Cardinality(IntervalsOfCall) = 1 /\ iv.page_start = iv.page_end) =>
                \A p \in last_call.res.packet :
                    /\ p.reading_fulltext # <<>>
                    /\ \A i \in 1..Len(p.reading_fulltext) :
                          p.reading_fulltext[i].page = iv.page_start

\* a packet of the single-page reading 1 of a two-page document holds a chunk
\* of the segmenter and a chunk of a vision asset
C14_Witness ==
    /\ last_call.made
    /\ last_call.res.status = "ok"
    /\ last_call.reading_id = "1"
    /\ Len(docs[last_call.doc_id]) = 2
    /\ \E iv \in IntervalsOfCall : iv.page_start = iv.page_end
    /\ \E p \in last_call.res.packet :
          /\ \E i \in 1..Len(p.reading_fulltext) : p.reading_fulltext[i].content_type = "formula"
          /\ \E i \in 1..Len(p.reading_fulltext) : p.reading_fulltext[i].content_type = "text"
    /\ \E i \in 1..Len(chunk_files["d1"]) : chunk_files["d1"][i].page = 2

----------------------------------------------------------------------------
(* Properties of finished index builds *)

\* the lines of the chunk streams the finished build read, in file order
RowsRead == SourceRows(chunk_files, idx_job.loc)

\* C15: after a successful build_chroma_index the destination collection
\* holds exactly one entry per distinct chunk_id of the input chunk streams,
\* with the content and metadata of the first line that carries the id, and
\* nothing else: no entry of an earlier build of the location survives.
C15_OneEntryPerId ==
    idx_job.pc = "done" =>
        LET entries == collections[idx_job.loc].entries IN
        /\ collections[idx_job.loc].state = "ok"
        /\ \A i, j \in 1..Len(entries) : entries[i].id = entries[j].id => i = j
        /\ {entries[i].id : i \in 1..Len(entries)}
              = {RowsRead[k].chunk_id : k \in 1..Len(RowsRead)}
        /\ \A i \in 1..Len(entries) :
              \E k \in 1..Len(RowsRead) :
                  /\ entries[i] = EntryOf(RowsRead[k])
                  /\ \A l \in 1..(k - 1) : RowsRead[l].chunk_id # entries[i].id

\* a successful rebuild over a populated collection from a stream in which a
\* chunk_id comes twice, with different metadata
C15_Witness ==
    /\ idx_job.pc = "done"
    /\ idx_job.had > 0
    /\ collections[idx_job.loc].entries # <<>>
    /\ \E k, l \in 1..Len(RowsRead) :
          /\ k < l
          /\ RowsRead[k].chunk_id = RowsRead[l].chunk_id
          /\ RowsRead[k].reading_id # RowsRead[l].reading_id

----------------------------------------------------------------------------
(* Properties of reading_map.json across builds *)

\* a build_reading_map_for_doc call ends in this step
MapBuildEnds == map_job' # map_job

\* C16: if neither the TOC strategy nor the page scan yields a reading start,
\* build_reading_map_for_doc raises and leaves reading_map.json exactly as it
\* was: not created if absent, and no document's entry changed.
C16_NoStartsNoWrite ==
    [][(MapBuildEnds /\ map_job'.found = 0) =>
          (map_job'.pc = "raised" /\ reading_map' = reading_map)]_vars

\* a build that found no reading start raised over a map that holds the entry
\* of an earlier build
C16_Witness ==
    /\ map_job.pc = "raised"
    /\ map_job.found = 0
    /\ map_job.builds = 2
    /\ reading_map.exists
    /\ DOMAIN reading_map.data # {}

\* C17: a successful build_reading_map_for_doc for document d replaces only
\* d's entry of reading_map.json: every other document already in the map
\* keeps its interval list, over any sequence of rebuilds, and no other entry
\* appears.
C17_OtherEntriesKept ==
    [][(MapBuildEnds /\ map_job'.pc = "returned") =>
          /\ DOMAIN reading_map'.data = DOMAIN reading_map.data \cup {map_job'.doc_id}
          /\ \A d \in DOMAIN reading_map.data :
                d # map_job'.doc_id => reading_map'.data[d] = reading_map.data[d]]_vars

\* the second build succeeded for another document than the first, and the
\* map holds both entries
C17_Witness ==
    /\ map_job.pc = "returned"
    /\ map_job.builds = 2
    /\ DOMAIN reading_map.data = DocIds

\* the chunks the assisted strategy produced for the page of a result
AssistedChunks(result) ==
    IF result.strategy = "assisted" THEN result.chunks ELSE <<>>

\* C21: among the chunks the assisted strategy emits for one page, every text
\* block id contributes to at most one chunk and at most once within a chunk,
\* and every contributing id is the index of a text block of that page.
C21_BlockIdsUsedOnce ==
    seg_job.pc \in {"running", "returned", "raised"} =>
    \A i \in 1..Len(seg_job.results) :
        LET chunks == AssistedChunks(seg_job.results[i])
            n == Len(TextBlocks(PayloadOf(seg_job.results[i].page).blocks))
        IN  /\ \A a, b \in 1..Len(chunks) :
                  a # b => BlockIdSet(chunks[a]) \cap BlockIdSet(chunks[b]) = {}
            /\ \A a \in 1..Len(chunks) : \A ids \in chunks[a].block_ids :
                  /\ \A k, l \in 1..Len(ids) : k # l => ids[k] # ids[l]
                  /\ \A k \in 1..Len(ids) : 0 <= ids[k] /\ ids[k] < n

----------------------------------------------------------------------------
(* The table-of-contents strategy on one listing *)

\* the extractor has listed entries for a document
TocInit ==
    /\ docs = MapDocs
    /\ reading_map = [exists |-> FALSE, data |-> EmptyMap]
    /\ chunk_files = EmptyMap
    /\ collections = AllBuilt
    /\ runs = EmptyMap
    /\ now = 0
    /\ map_job \in {[pc |-> "listed", doc_id |-> d, entries |-> es] :
                       d \in DocIds, es \in SeqsUpTo(TocEntries, MaxToc)}
    /\ seg_job = Idle
    /\ idx_job = Idle
    /\ last_call = NoCall

\* reading_map_builder.py:208-210 and 253-281: the listing is normalised and
\* the starts it leaves are de-duplicated, ordered, cleaned and closed
TocAccept ==
    /\ map_job.pc = "listed"
    /\ LET n_pages == Len(docs[map_job.doc_id])
           starts == _normalize_toc_entries(map_job.entries, n_pages)
       IN  map_job' = [pc |-> "closed", doc_id |-> map_job.doc_id,
                       entries |-> map_job.entries, starts |-> starts,
                       res |-> CloseIntervals(starts, n_pages)]
    /\ UNCHANGED <<docs, reading_map, chunk_files, collections, runs, now, seg_job,
                   idx_job, last_call>>

TocNext == TocAccept

TocSpec == TocInit /\ [][TocNext]_vars

\* the reading id and start page of each stored interval, in order
IdsAndPages(intervals) ==
    [i \in 1..Len(intervals) |-> <<intervals[i].reading_id, intervals[i].page_start>>]

\* the reading id and start page of each candidate start, in order
IdsAndStarts(starts) ==
    [i \in 1..Len(starts) |-> <<starts[i].reading_id, IntOf(starts[i].page_start)>>]

\* C22: in the table-of-contents strategy the accepted entries have their
\* start page inside [1, page_count], and they are the listed in-range entries
\* without those whose start page is less than or equal to the start page of
\* the previously accepted entry, in the order the extractor listed them.
C22_ListingOrderKept ==
    map_job.pc = "closed" =>
        /\ \A i \in 1..Len(map_job.res.intervals) :
              /\ 1 <= map_job.res.intervals[i].page_start
              /\ map_job.res.intervals[i].page_start <= Len(docs[map_job.doc_id])
        /\ IdsAndPages(map_job.res.intervals)
              = IdsAndStarts(DropNonIncreasing(map_job.starts, 0))

\* C23: the table-of-contents strategy is tried first and the page scan
\* second: a build scans pages exactly when the TOC strategy was disabled,
\* raised or left no accepted entry, the boundary confirmer is called in no
\* other build, and after a build whose TOC strategy left an accepted entry the
\* stored intervals start on pages those entries name.
C23_TocBeforeScan ==
    [][MapBuildEnds =>
         /\ map_job'.source = "scan"
               <=> (~map_job'.use_llm \/ ~map_job'.toc_ok \/ map_job'.toc_pages = {})
         /\ map_job'.confirmed # {} => map_job'.source = "scan"
         /\ (map_job'.toc_pages # {} /\ map_job'.pc = "returned") =>
               LET stored == reading_map'.data[map_job'.doc_id]
               IN  /\ {stored[i].page_start : i \in 1..Len(stored)} \subseteq map_job'.toc_pages
                   /\ Len(stored) = map_job'.found - map_job'.dropped]_vars

\* the extractor's accepted entries name pages 1 and 3 of a document whose
\* pages 2 and 3 are candidates, and the build stored intervals without a scan
C23_Witness ==
    /\ map_job.pc = "returned"
    /\ map_job.doc_id = "d1"
    /\ map_job.source = "toc"
    /\ map_job.toc_pages = {1, 3}
    /\ CandidatePages(docs["d1"], 3) = {2, 3}

RECURSIVE Windows(_, _, _)
\* the windows the heuristic strategy steps through on text from offset start
Windows(text, start, target_chunk_chars) ==
    IF start >= Len(text) THEN <<>>
    ELSE LET end == WindowEnd(text, start, target_chunk_chars)
         IN  <<[start |-> start, end |-> end]>> \o Windows(text, end, target_chunk_chars)

\* the classifier answer whose proposals became the chunks of page p
UsedAnswer(p) ==
    IF Escalates(seg_job.cfg, PayloadOf(p), AttemptOn(p, seg_job.envs[p].r1))
    THEN seg_job.envs[p].r2 ELSE seg_job.envs[p].r1

\* C24: every chunk of a page processed by the build has content of at least
\* min_chunk_chars characters, and a discarded piece does not stop the page:
\* every proposal of the answer used by the assisted strategy that names a
\* text block and assembles long enough content has its chunk, and so has
\* every window of the heuristic strategy with long enough stripped content.
C24_MinimumContent ==
    seg_job.pc \in {"running", "returned", "raised"} =>
    \A i \in 1..Len(seg_job.results) :
        LET result == seg_job.results[i]
            p == result.page
            min_chunk_chars == seg_job.cfg.min_chunk_chars
            text_blocks == TextBlocks(PayloadOf(p).blocks)
            text == Strip(PayloadOf(p).text)
            proposals == UsedAnswer(p).chunks
            windows == Windows(text, 0, seg_job.cfg.target_chunk_chars)
        IN  /\ \A k \in 1..Len(result.chunks) :
                  Len(result.chunks[k].content) >= min_chunk_chars
            /\ result.strategy = "assisted" =>
                  \A k \in 1..Len(proposals) :
                      LET ids == ValidBlockIds(proposals[k].block_ids, Len(text_blocks))
                          content == Strip(JoinWith(TextOf(text_blocks, ids), "\n"))
                      IN  (ids # <<>> /\ Len(content) >= min_chunk_chars) =>
                              \E c \in 1..Len(result.chunks) :
                                  /\ result.chunks[c].block_ids = {ids}
                                  /\ result.chunks[c].content = content
            /\ result.strategy = "heuristic" =>
                  \A k \in 1..Len(windows) :
                      LET content == Strip(Slice(text, windows[k].start, windows[k].end))
                      IN  Len(content) >= min_chunk_chars =>
                              \E c \in 1..Len(result.chunks) :
                                  /\ result.chunks[c].span = <<windows[k].start, windows[k].end>>
                                  /\ result.chunks[c].content = content

\* on the second page of d2 the first proposal, the one-character block "x",
\* was discarded and the second became the page's only chunk
C24_Witness ==
    /\ seg_job.pc = "returned"
    /\ seg_job.doc_id = "d2"
    /\ \E i \in 1..Len(seg_job.results) :
          /\ seg_job.results[i].page = 2
          /\ seg_job.results[i].strategy = "assisted"
          /\ Len(UsedAnswer(2).chunks) = 2
          /\ UsedAnswer(2).chunks[1].block_ids = <<0>>
          /\ Len(seg_job.results[i].chunks) = 1
          /\ seg_job.results[i].chunks[1].content = "abcd"

\* C25: within the interval list stored for one document no two intervals
\* carry the same reading_id.
C25_UniqueReadingId ==
    \A d \in DOMAIN reading_map.data :
        \A i, j \in 1..Len(reading_map.data[d]) :
            i # j => reading_map.data[d][i].reading_id # reading_map.data[d][j].reading_id

\* C26: after any sequence of builds and vision-extraction runs on a document,
\* its chunk file holds at most one line per chunk_id.
C26_OneLinePerChunkId ==
    \A d \in DOMAIN chunk_files :
        \A i, j \in 1..Len(chunk_files[d]) :
            i # j => chunk_files[d][i].chunk_id # chunk_files[d][j].chunk_id

\* C27: in parallel mode an exception escaping the worker of a page is
\* absorbed: the build never ends with the exception, and when it has
\* returned the page of a failed worker has no line, every other page has the
\* chunks its worker returned, and the lines are in ascending page order.
C27_WorkerFailureAbsorbed ==
    (/\ seg_job.pc \in {"running", "returned", "raised"}
     /\ seg_job.cfg.use_llm /\ seg_job.cfg.parallel > 1) =>
        /\ seg_job.pc # "raised"
        /\ seg_job.pending = {} => seg_job.pc = "returned"
        /\ seg_job.pc = "returned" =>
              /\ NonDecreasingPages(chunk_files[seg_job.doc_id])
              /\ \A i \in 1..Len(seg_job.results) :
                    LET r == seg_job.results[i]
                        written == ChunksOfPage(chunk_files[seg_job.doc_id], r.page)
                    IN  IF r.raised THEN written = <<>>
                        ELSE written = _process_page(seg_job.doc_id, seg_job.cfg,
                                                     PayloadOf(r.page),
                                                     seg_job.envs[r.page]).chunks

\* the worker of page 1 raised, the worker of page 2 returned chunks, and
\* the build returned with the lines of page 2 only
C27_Witness ==
    /\ PoolBuildReturned
    /\ \E i, j \in 1..Len(seg_job.results) :
          /\ seg_job.results[i].page = 1 /\ seg_job.results[i].raised
          /\ seg_job.results[j].page = 2 /\ ~seg_job.results[j].raised
          /\ seg_job.results[j].chunks # <<>>
    /\ chunk_files[seg_job.doc_id] # <<>>
    /\ ChunksOfPage(chunk_files[seg_job.doc_id], 1) = <<>>

\* C28: a call of build_evidence_packet that fails (missing chunk file, no
\* chunk for the reading, index missing without usable fallback, query error)
\* leaves the runs location as it was: no directory and no file is created.
C28_FailedCallLeavesNoTrace ==
    [][(last_call'.made /\ last_call'.res.status # "ok") => runs' = runs]_vars

\* C29: the heuristic strategy terminates on every page text for every
\* target_chunk_chars >= 1: every turn of the loop moves start forward by at
\* least one character, start never exceeds the length of the stripped text,
\* and start reaches that length.
C29_LoopTerminates ==
    /\ [][/\ seg_job'.start >= seg_job.start + 1
          /\ seg_job'.start <= Len(seg_job'.text)]_vars
    /\ [](seg_job.start <= Len(seg_job.text))
    /\ <>(seg_job.start >= Len(seg_job.text))

\* with target_chunk_chars = 1 the loop has gone through more turns than the
\* usual window is long, the last window began with a boundary marker, and
\* start has reached the end of the text
C29_Witness ==
    /\ seg_job.pc = "windows"
    /\ seg_job.target = 1
    /\ seg_job.start = Len(seg_job.text)
    /\ seg_job.start > TargetChunkChars
    /\ \E w \in seg_job.closed : 0 \in MarkerOffsets(w)

\* the chunks the heuristic strategy emits for the text of the window job
WindowChunks ==
    _page_to_chunks("d1", 1, seg_job.text, None, seg_job.target, MinChunkChars)

\* C30: the windows the heuristic strategy steps through tile the stripped
\* text from offset 0 to its end: the first starts at 0, each starts where the
\* one before ended, none is empty, longer than target_chunk_chars or past the
\* end, and the loop stops exactly at the end of the text. The spans of the
\* emitted chunks are pairwise disjoint and increasing in emission order, each
\* at most target_chunk_chars long and inside [0, len(text)], and the content
\* of each chunk is the stripped text of its span.
C30_WindowsTile ==
    /\ [](seg_job.pc = "windows" =>
            /\ seg_job.closed = {} => seg_job.start = 0
            /\ seg_job.start <= Len(seg_job.text)
            /\ \A w \in seg_job.closed :
                  /\ w.start < w.end
                  /\ w.end = seg_job.start
                  /\ w.end - w.start <= seg_job.target
            /\ \A k \in 1..Len(WindowChunks) :
                  LET c == WindowChunks[k]
                  IN  /\ 0 <= c.span[1] /\ c.span[1] < c.span[2]
                      /\ c.span[2] <= Len(seg_job.text)
                      /\ c.span[2] - c.span[1] <= seg_job.target
                      /\ c.content = Strip(SubSeq(seg_job.text, c.span[1] + 1, c.span[2]))
                      /\ \A l \in 1..Len(WindowChunks) :
                            k < l => c.span[2] <= WindowChunks[l].span[1])
    /\ [][\A w \in seg_job'.closed : w.start = seg_job.start]_vars

\* the loop has stopped at the end of a text that gave two chunks, the second
\* beginning where the first ended, at a boundary marker
C30_Witness ==
    /\ seg_job.pc = "windows"
    /\ seg_job.start = Len(seg_job.text)
    /\ Len(WindowChunks) = 2
    /\ WindowChunks[1].span[1] = 0
    /\ WindowChunks[1].span[2] = WindowChunks[2].span[1]
    /\ WindowChunks[2].span[2] = Len(seg_job.text)
    /\ \E w \in seg_job.closed : w.start = WindowChunks[2].span[1]

====
